---- MODULE Spec2Model ----
(***************************************************************************)
(* Job-application tracker: the matcher (app/matcher.py), the email        *)
(* pipeline (app/processor.py) over the tables of app/models.py, and the   *)
(* sync endpoint (app/routers/sync.py).                                    *)
(*                                                                         *)
(* Conventions.  Strings that the code compares, trims, lower-cases or     *)
(* measures are sequences of one-character strings.  Python None and SQL   *)
(* NULL are <<>> for a string and 0 for an id or a date (ids and dates of  *)
(* the model start at 1).  Dates are days.  Confidences and similarities   *)
(* are fractions stored as integers in units of 1/Unit: exact when the     *)
(* lengths of the two compared strings add up to at most 10, rounded down  *)
(* to the unit otherwise.                                                  *)
(***************************************************************************)
EXTENDS Integers, Sequences, FiniteSets, TLC

VARIABLES
    applications,   \* table applications (committed rows)
    now,            \* datetime.utcnow() / func.now(), in days
    mcall,          \* the last ApplicationMatcher.match call and its result
    call,           \* the last call of unwrap, extract or generate_email_fingerprint
    rawEmails,      \* table raw_emails (committed rows)
    events,         \* table application_events (committed rows, in insertion order)
    links,          \* table links (committed rows)
    reviews,        \* table manual_reviews (committed rows)
    nextId,         \* the id sequences of raw_emails and applications
    sess,           \* per database session: the process_email call in flight
    batch,          \* per session: the emails process_batch has taken from its list
    results,        \* per session: the ProcessingResults returned so far
    ncalls,         \* number of emails handed to process_batch so far
    syncLocks,      \* _sync_locks of routers/sync.py
    syncStates,     \* table sync_state
    tasks,          \* background tasks scheduled by run_sync
    requests        \* the POST /sync/run requests that have arrived

vars == <<applications, now, mcall, call, rawEmails, events, links, reviews, nextId,
          sess, batch, results, ncalls, syncLocks, syncStates, tasks, requests>>

pipelineVars == <<rawEmails, events, links, reviews, nextId, sess, batch, results, ncalls>>
syncVars == <<syncLocks, syncStates, tasks, requests>>

-----------------------------------------------------------------------------
(* Values *)

\* The attributes of the records below; every record lists its own in this order.
Attributes ==
    [action_deadline : {}, action_description : {}, action_required : {},
     action_type : {}, answer : {}, app : {}, application : {}, application_date : {},
     application_id : {}, applications_created : {}, batch_size : {},
     body_html : {}, body_prefix : {}, body_text : {}, calls : {},
     clean_body_html : {}, clean_body_text : {}, company_confidence : {},
     company_name : {}, confidence : {}, created : {}, created_at : {},
     cur : {}, current_status : {}, during : {}, email_date : {},
     email_fingerprint : {}, email_type : {}, emails_fetched : {},
     emails_processed : {}, error : {}, error_message : {}, errors : {},
     errors_count : {}, event_count : {}, event_date : {}, expires_at : {},
     extraction_method : {}, fact : {}, fetched : {}, first_seen_date : {},
     function : {}, id : {}, is_job_related : {}, is_new : {},
     is_new_application : {}, is_running : {}, job_title : {},
     job_title_confidence : {}, latest_email_date : {}, left : {},
     link_count : {}, link_no : {}, llm_client : {}, llm_requests : {},
     match_type : {}, method_used : {}, mr : {}, needs_manual_review : {},
     nlinks : {}, original_date : {}, original_from : {},
     original_subject : {}, original_to : {}, outlook_from : {},
     outlook_message_id : {}, outlook_subject : {}, overall_confidence : {},
     pc : {}, processed : {}, processing_error : {}, raw : {},
     raw_email_id : {}, raw_id : {}, reason : {}, received_datetime : {},
     request : {},
     result : {}, reviewed : {}, rule_based : {}, should_review : {},
     state : {}, status : {}, status_updated_at : {}, success : {},
     suggested_company : {}, suggested_job_title : {}, suggested_status : {},
     sync_state_id : {}, unwrapped : {}, user : {}, user_id : {}]

NoId == 0
NoDate == 0
NoName == <<>>

Unit == 2520 * 10
Pct(n) == n * 252

Users == {1, 2}

-----------------------------------------------------------------------------
(* Strings: str.lower, str.strip, SQL LIKE '%x%', difflib.SequenceMatcher *)

LowerChar(c) ==
    CASE c = "A" -> "a"
      [] c = "B" -> "b"
      [] c = "C" -> "c"
      [] c = "D" -> "d"
      [] c = "E" -> "e"
      [] c = "F" -> "f"
      [] c = "G" -> "g"
      [] c = "H" -> "h"
      [] c = "I" -> "i"
      [] c = "J" -> "j"
      [] c = "K" -> "k"
      [] c = "L" -> "l"
      [] c = "M" -> "m"
      [] c = "N" -> "n"
      [] c = "O" -> "o"
      [] c = "P" -> "p"
      [] c = "Q" -> "q"
      [] c = "R" -> "r"
      [] c = "S" -> "s"
      [] c = "T" -> "t"
      [] c = "U" -> "u"
      [] c = "V" -> "v"
      [] c = "W" -> "w"
      [] c = "X" -> "x"
      [] c = "Y" -> "y"
      [] c = "Z" -> "z"
      [] OTHER -> c

Lower(s) == [i \in 1..Len(s) |-> LowerChar(s[i])]

IsSpace(c) == c \in {" ", "\n", "\t"}

RECURSIVE LStrip(_)
LStrip(s) == IF s # <<>> /\ IsSpace(Head(s)) THEN LStrip(Tail(s)) ELSE s

RECURSIVE RStrip(_)
RStrip(s) ==
    IF s # <<>> /\ IsSpace(s[Len(s)]) THEN RStrip(SubSeq(s, 1, Len(s) - 1)) ELSE s

Strip(s) == RStrip(LStrip(s))

Contains(hay, needle) ==
    \E i \in 0..(Len(hay) - Len(needle)) : SubSeq(hay, i + 1, i + Len(needle)) = needle

\* The blocks SequenceMatcher.find_longest_match chooses from: equal runs
\* a[i .. i+k-1] = b[j .. j+k-1].
MatchingBlocks(a, b) ==
    {x \in (1..Len(a)) \X (1..Len(b)) \X (1..Len(a)) :
        /\ x[1] + x[3] - 1 <= Len(a)
        /\ x[2] + x[3] - 1 <= Len(b)
        /\ SubSeq(a, x[1], x[1] + x[3] - 1) = SubSeq(b, x[2], x[2] + x[3] - 1)}

\* The longest block; of those the one starting earliest in a, then earliest in b.
LongestMatch(a, b) ==
    CHOOSE x \in MatchingBlocks(a, b) :
        \A y \in MatchingBlocks(a, b) :
            \/ x[3] > y[3]
            \/ x[3] = y[3] /\ x[1] < y[1]
            \/ x[3] = y[3] /\ x[1] = y[1] /\ x[2] <= y[2]

\* Sum of the sizes of get_matching_blocks: the longest block, then the same to
\* its left and to its right.
RECURSIVE MatchingSize(_, _)
MatchingSize(a, b) ==
    IF MatchingBlocks(a, b) = {} THEN 0
    ELSE LET m == LongestMatch(a, b)
         IN  m[3]
             + MatchingSize(SubSeq(a, 1, m[1] - 1), SubSeq(b, 1, m[2] - 1))
             + MatchingSize(SubSeq(a, m[1] + m[3], Len(a)), SubSeq(b, m[2] + m[3], Len(b)))

\* SequenceMatcher(None, str1, str2).ratio() = 2.0 * M / T, and 1.0 when T = 0.
StringSimilarity(str1, str2) ==
    IF Len(str1) + Len(str2) = 0 THEN Unit
    ELSE (2 * MatchingSize(str1, str2) * Unit) \div (Len(str1) + Len(str2))

-----------------------------------------------------------------------------
(* ApplicationMatcher *)

FUZZY_MATCH_THRESHOLD == Pct(80)
TIME_WINDOW_DAYS == 60
LOW_CONFIDENCE_THRESHOLD == Pct(60)
FuzzyReviewBelow == Pct(90)
SubjectWindowDays == 30
SubjectThreshold == Pct(85)

MatchResult(id, type, conf, new, review) ==
    [application_id |-> id, confidence |-> conf, is_new |-> new,
     match_type |-> type, should_review |-> review]

NoMatchResult == MatchResult(NoId, "none", 0, FALSE, FALSE)

\* A query that leaves the user filter out.
OfAnyUser(apps, user_id) == apps

\* "if self.user_id: query = query.filter(Application.user_id == self.user_id)"
OfUser(apps, user_id) ==
    IF user_id # NoId THEN {a \in apps : a.user_id = user_id} ELSE apps

\* A query without ORDER BY ends in .first(), or a loop over .all() keeps the
\* first of equal scores: any of the qualifying rows can be the one returned, so
\* every strategy yields the SET of results it can return ({} is Python's None).

_match_exact(apps, user_id, company, job_title) ==
    {MatchResult(a.id, "exact", Unit, FALSE, FALSE) :
        a \in {x \in OfUser(apps, user_id) :
                  /\ Lower(x.company_name) = Lower(Strip(company))
                  /\ Lower(x.job_title) = Lower(Strip(job_title))}}

CombinedSim(a, company, job_title) ==
    (StringSimilarity(Lower(company), Lower(a.company_name)) * 6
     + StringSimilarity(Lower(job_title), Lower(a.job_title)) * 4) \div 10

\* The fuzzy strategy over all the user's Applications, whatever their age.
FuzzyAnyAge(apps, user_id, company, job_title, utcnow) ==
    LET good == {a \in OfUser(apps, user_id) :
                    CombinedSim(a, company, job_title) >= FUZZY_MATCH_THRESHOLD}
        best == {a \in good : \A b \in good :
                    CombinedSim(b, company, job_title) <= CombinedSim(a, company, job_title)}
    IN  {MatchResult(a.id, "fuzzy", CombinedSim(a, company, job_title), FALSE,
                     CombinedSim(a, company, job_title) < FuzzyReviewBelow) : a \in best}

_match_fuzzy(apps, user_id, company, job_title, utcnow) ==
    LET recent == {a \in OfUser(apps, user_id) : a.created_at >= utcnow - TIME_WINDOW_DAYS}
        good == {a \in recent : CombinedSim(a, company, job_title) >= FUZZY_MATCH_THRESHOLD
                                /\ CombinedSim(a, company, job_title) > 0}
        best == {a \in good : \A b \in good :
                    CombinedSim(b, company, job_title) <= CombinedSim(a, company, job_title)}
    IN  {MatchResult(a.id, "fuzzy", CombinedSim(a, company, job_title), FALSE,
                     CombinedSim(a, company, job_title) < FuzzyReviewBelow) : a \in best}

\* The domain/time strategy that accepts its single candidate without review.
DomainTimeSingleAccepted(apps, user_id, company, email_date) ==
    LET found == {a \in OfUser(apps, user_id) :
                     /\ Contains(Lower(a.company_name), Lower(Strip(company)))
                     /\ a.latest_email_date # NoDate
                     /\ a.latest_email_date >= email_date - TIME_WINDOW_DAYS}
    IN  IF Cardinality(found) = 1
        THEN {MatchResult(a.id, "domain_time", Pct(75), FALSE, FALSE) : a \in found}
        ELSE IF Cardinality(found) > 1
        THEN {MatchResult(NoId, "domain_time_ambiguous", Pct(50), FALSE, TRUE)}
        ELSE {}

_match_by_domain_and_time(apps, user_id, company, email_date) ==
    LET found == {a \in OfUser(apps, user_id) :
                     /\ Contains(Lower(a.company_name), Lower(Strip(company)))
                     /\ a.latest_email_date # NoDate
                     /\ a.latest_email_date >= email_date - TIME_WINDOW_DAYS}
    IN  IF Cardinality(found) = 1
        THEN {MatchResult(a.id, "domain_time", Pct(75), FALSE, TRUE) : a \in found}
        ELSE IF Cardinality(found) > 1
        THEN {MatchResult(NoId, "domain_time_ambiguous", Pct(50), FALSE, TRUE)}
        ELSE {}

_match_by_subject_similarity(apps, user_id, job_title, email_date) ==
    LET recent == {a \in OfUser(apps, user_id) :
                      /\ a.latest_email_date # NoDate
                      /\ a.latest_email_date >= email_date - SubjectWindowDays}
        sim(a) == StringSimilarity(Lower(job_title), Lower(a.job_title))
        good == {a \in recent : sim(a) >= SubjectThreshold /\ sim(a) > 0}
        best == {a \in good : \A b \in good : sim(b) <= sim(a)}
    IN  {MatchResult(a.id, "subject_similarity", (sim(a) * 7) \div 10, FALSE, TRUE) :
            a \in best}

NoMatchNewAndReview(fact) ==
    IF fact.overall_confidence >= LOW_CONFIDENCE_THRESHOLD
    THEN MatchResult(NoId, "no_match", fact.overall_confidence, TRUE, FALSE)
    ELSE MatchResult(NoId, "no_match_low_confidence", fact.overall_confidence, TRUE, TRUE)

NoMatchThresholdStrict(fact) ==
    IF fact.overall_confidence > LOW_CONFIDENCE_THRESHOLD
    THEN MatchResult(NoId, "no_match", fact.overall_confidence, TRUE, FALSE)
    ELSE MatchResult(NoId, "no_match_low_confidence", fact.overall_confidence, FALSE, TRUE)

_handle_no_match(fact) ==
    IF fact.overall_confidence >= LOW_CONFIDENCE_THRESHOLD
    THEN MatchResult(NoId, "no_match", fact.overall_confidence, TRUE, FALSE)
    ELSE MatchResult(NoId, "no_match_low_confidence", fact.overall_confidence, FALSE, TRUE)

\* The cascade with the domain/time strategy consulted before the fuzzy one.
MatchDomainBeforeFuzzy(apps, user_id, fact, email_date, utcnow) ==
    LET company == fact.company_name
        job_title == fact.job_title
        exact == IF company # NoName /\ job_title # NoName
                 THEN _match_exact(apps, user_id, company, job_title) ELSE {}
        fuzzy == IF company # NoName /\ job_title # NoName
                 THEN _match_fuzzy(apps, user_id, company, job_title, utcnow) ELSE {}
        domain == IF company # NoName
                  THEN _match_by_domain_and_time(apps, user_id, company, email_date) ELSE {}
        subject == IF job_title # NoName
                   THEN _match_by_subject_similarity(apps, user_id, job_title, email_date)
                   ELSE {}
    IN  IF exact # {} THEN exact
        ELSE IF domain # {} THEN domain
        ELSE IF fuzzy # {} THEN fuzzy
        ELSE IF subject # {} THEN subject
        ELSE {_handle_no_match(fact)}

\* The strategy cascade of match: the set of results the call can return.
Match(apps, user_id, fact, email_date, utcnow) ==
    LET company == fact.company_name
        job_title == fact.job_title
        exact == IF company # NoName /\ job_title # NoName
                 THEN _match_exact(apps, user_id, company, job_title) ELSE {}
        fuzzy == IF company # NoName /\ job_title # NoName
                 THEN _match_fuzzy(apps, user_id, company, job_title, utcnow) ELSE {}
        domain == IF company # NoName
                  THEN _match_by_domain_and_time(apps, user_id, company, email_date) ELSE {}
        subject == IF job_title # NoName
                   THEN _match_by_subject_similarity(apps, user_id, job_title, email_date)
                   ELSE {}
    IN  IF exact # {} THEN exact
        ELSE IF fuzzy # {} THEN fuzzy
        ELSE IF domain # {} THEN domain
        ELSE IF subject # {} THEN subject
        ELSE {_handle_no_match(fact)}

-----------------------------------------------------------------------------
(* ExtractedData, as far as the matcher and the processor read it *)

MkFact(company, title, status, action, nlinks, conf) ==
    [action_deadline |-> IF action THEN 120 ELSE NoDate,
     action_description |-> IF action THEN "assessment" ELSE "None",
     action_required |-> action,
     action_type |-> IF action THEN "COMPLETE_ASSESSMENT" ELSE "None",
     company_name |-> company, job_title |-> title, nlinks |-> nlinks,
     overall_confidence |-> conf, status |-> status]

NoFact == MkFact(NoName, NoName, "OTHER_UPDATE", FALSE, 0, 0)

CandidateLimit == 5
CandidateFloor == Pct(50)

\* "score += company_sim * 0.6" if company, "score += job_title_sim * 0.4" if job_title
CandidateScore(a, company, job_title) ==
    ((IF company # NoName THEN StringSimilarity(Lower(company), Lower(a.company_name)) * 6
      ELSE 0)
     + (IF job_title # NoName THEN StringSimilarity(Lower(job_title), Lower(a.job_title)) * 4
        ELSE 0)) \div 10

\* find_candidates(company, job_title, limit=5): the (Application, score) pairs
\* it can return, the limit highest of those above 0.5; the order of equal
\* scores is the query's, so every choice among them is a possible result.
find_candidates(apps, user_id, company, job_title, utcnow) ==
    IF company = NoName /\ job_title = NoName THEN {{}}
    ELSE LET recent == {a \in OfUser(apps, user_id) :
                           a.created_at >= utcnow - TIME_WINDOW_DAYS}
             candidates == {<<a, CandidateScore(a, company, job_title)>> :
                               a \in {x \in recent :
                                         CandidateScore(x, company, job_title) > CandidateFloor}}
             size == IF Cardinality(candidates) < CandidateLimit
                     THEN Cardinality(candidates) ELSE CandidateLimit
         IN  {top \in SUBSET candidates :
                 /\ Cardinality(top) = size
                 /\ \A x \in top, y \in candidates \ top : x[2] >= y[2]}

\* No match call made yet.
NoCall == [email_date |-> NoDate, fact |-> NoFact, result |-> NoMatchResult, user |-> NoId]

\* No call of unwrap, extract or generate_email_fingerprint made.
Uncalled == [function |-> "none"]

-----------------------------------------------------------------------------
(* The matcher on its own: match applied to the rows the table can hold *)

MaxApps == 2

MkApplication(id, user_id, company, title, status, email_date, created_at) ==
    [action_deadline |-> NoDate, action_description |-> "None",
     action_required |-> FALSE, action_type |-> "None",
     application_date |-> email_date, company_name |-> company,
     created_at |-> created_at, current_status |-> status, event_count |-> 0,
     first_seen_date |-> email_date, id |-> id, job_title |-> title,
     latest_email_date |-> email_date, link_count |-> 0,
     status_updated_at |-> email_date, user_id |-> user_id]

MatchCompanies == <<  <<"a", "b">>, <<"A", "b">>, <<" ", "a", "b">>, <<"a", "b", "c">>  >>
MatchTitles == <<  <<"t">>, <<"t", "u">>  >>
\* A title one character longer than the query <<"t", "u", "v">>: ratio 6/7.
LongTitle == <<"t", "u", "v", "w">>

\* Rows of user 1 with every company and title above, with a latest_email_date
\* (written by the pipeline) or without one (POST /applications leaves it NULL),
\* and one row of user 2.  Row ids are distinct.
MatchRows ==
    {MkApplication((ci - 1) * 4 + (ti - 1) * 2 + k + 1, 1, MatchCompanies[ci], MatchTitles[ti],
                   "APPLIED_RECEIVED", IF k = 0 THEN 100 ELSE NoDate, 100) :
        ci \in 1..Len(MatchCompanies), ti \in 1..Len(MatchTitles), k \in 0..1}
    \cup {MkApplication(50, 2, MatchCompanies[1], MatchTitles[1], "APPLIED_RECEIVED", 100, 100)}
    \cup {MkApplication(60, 1, MatchCompanies[1], LongTitle, "APPLIED_RECEIVED", 100, 100)}

RECURSIVE SubsetsUpTo(_, _)
SubsetsUpTo(U, n) ==
    IF n = 0 THEN {{}}
    ELSE LET P == SubsetsUpTo(U, n - 1) IN P \cup {s \cup {a} : s \in P, a \in U}

\* UniqueConstraint('user_id', 'company_name', 'job_title')
AppKey(a) == <<a.user_id, a.company_name, a.job_title>>
UniqueApplications(apps) == \A a, b \in apps : AppKey(a) = AppKey(b) => a = b

MatchQueryCompanies == {NoName, <<"a", "b">>, <<"A", "B">>, <<"a", "b", " ">>, <<"b">>}
MatchQueryTitles == {NoName, <<"t">>, <<"T">>, <<"t", "u", "v">>}
MatchQueryConfidences == {Pct(59), Pct(60), Pct(78)}
MatchDates == {100, 165}
\* The dates of the emails: one of them older than every Application's latest
\* email, as when an old message is processed after newer ones.
MatchEmailDates == {30, 100, 165}

InitMatch ==
    /\ applications \in {s \in SubsetsUpTo(MatchRows, MaxApps) : UniqueApplications(s)}
    /\ now \in MatchDates
    /\ mcall = NoCall /\ call = Uncalled
    /\ rawEmails = {} /\ events = <<>> /\ links = {} /\ reviews = {}
    /\ nextId = [app |-> 1, raw |-> 1]
    /\ sess = <<>> /\ batch = <<>> /\ results = <<>> /\ ncalls = 0
    /\ syncLocks = <<>> /\ syncStates = <<>> /\ tasks = <<>> /\ requests = <<>>

\* matcher = ApplicationMatcher(db, user_id); matcher.match(extracted_data, email_date),
\* once per behaviour.
MatchCall(user_id, fact, email_date) ==
    /\ mcall.user = NoId
    /\ \E r \in Match(applications, user_id, fact, email_date, now) :
           mcall' = [email_date |-> email_date, fact |-> fact, result |-> r, user |-> user_id]
    /\ UNCHANGED <<applications, now, call, pipelineVars, syncVars>>

NextMatch ==
    \E user_id \in Users, company \in MatchQueryCompanies, title \in MatchQueryTitles,
       conf \in MatchQueryConfidences, email_date \in MatchEmailDates :
        MatchCall(user_id, MkFact(company, title, "APPLIED_RECEIVED", FALSE, 0, conf), email_date)

SpecMatch == InitMatch /\ [][NextMatch]_vars

\* The rows of the caller whose company and title equal the extracted ones
\* case-insensitively and after trimming.
SameModuloCaseAndSpace(s, t) == Lower(Strip(s)) = Lower(Strip(t))

ExactCandidates ==
    {a \in applications :
        /\ a.user_id = mcall.user
        /\ SameModuloCaseAndSpace(a.company_name, mcall.fact.company_name)
        /\ SameModuloCaseAndSpace(a.job_title, mcall.fact.job_title)}

Called == mcall.user # NoId

\* C9: when the extracted company and job title are both present and equal,
\* case-insensitively and after trimming, those of one of the user's
\* Applications, match returns such an Application with match_type "exact",
\* confidence 1.0, is_new = false and should_review = false.
C9_ExactMatchWins ==
    (/\ Called
     /\ mcall.fact.company_name # NoName
     /\ mcall.fact.job_title # NoName
     /\ ExactCandidates # {})
    => /\ mcall.result.match_type = "exact"
       /\ mcall.result.confidence = Unit
       /\ mcall.result.is_new = FALSE
       /\ mcall.result.should_review = FALSE
       /\ mcall.result.application_id \in {a.id : a \in ExactCandidates}

\* No strategy of the cascade yields a candidate for the recorded call.
NoCandidate ==
    LET f == mcall.fact
        both == f.company_name # NoName /\ f.job_title # NoName
    IN  /\ both => _match_exact(applications, mcall.user, f.company_name, f.job_title) = {}
        /\ both => _match_fuzzy(applications, mcall.user, f.company_name, f.job_title, now) = {}
        /\ f.company_name # NoName =>
               _match_by_domain_and_time(applications, mcall.user, f.company_name,
                                         mcall.email_date) = {}
        /\ f.job_title # NoName =>
               _match_by_subject_similarity(applications, mcall.user, f.job_title,
                                            mcall.email_date) = {}

\* C10: when no strategy yields a candidate, match returns is_new = true and
\* should_review = false if the overall confidence is at least 0.60, and
\* is_new = false and should_review = true if it is below; in both cases
\* application_id is unset and the confidence is the extraction's.
C10_NoMatchFloor ==
    (Called /\ NoCandidate)
    => /\ mcall.result.application_id = NoId
       /\ mcall.result.confidence = mcall.fact.overall_confidence
       /\ mcall.fact.overall_confidence >= Pct(60)
            => mcall.result.is_new = TRUE /\ mcall.result.should_review = FALSE
       /\ mcall.fact.overall_confidence < Pct(60)
            => mcall.result.is_new = FALSE /\ mcall.result.should_review = TRUE

\* A call at exactly 0.60 with rows of the caller in the table and no candidate.
C10_Witness ==
    /\ Called /\ NoCandidate
    /\ mcall.fact.overall_confidence = Pct(60)
    /\ mcall.result.is_new
    /\ \E a \in applications : a.user_id = mcall.user

\* C11: every MatchResult match returns has is_new and should_review not both
\* true; is_new = true implies that application_id is unset; is_new = false
\* with should_review = false implies that application_id is the id of an
\* Application in the table.  Hence exactly one of the orchestrator's branches
\* (review, create, update) applies to it.
C11_BranchesDisjoint ==
    Called =>
        LET r == mcall.result
            review == r.should_review
            create == ~r.should_review /\ r.is_new
            update == ~r.should_review /\ ~r.is_new
        IN  /\ ~(r.is_new /\ r.should_review)
            /\ r.is_new => r.application_id = NoId
            /\ (~r.is_new /\ ~r.should_review)
                   => \E a \in applications : a.id = r.application_id
            /\ Cardinality({b \in {"review", "create", "update"} :
                               \/ b = "review" /\ review
                               \/ b = "create" /\ create /\ r.application_id = NoId
                               \/ b = "update" /\ update /\ r.application_id # NoId}) = 1

\* A fuzzy match accepted without review: the update branch, reached by a
\* strategy other than the exact one.
C11_Witness ==
    /\ Called
    /\ mcall.result.match_type = "fuzzy"
    /\ ~mcall.result.is_new /\ ~mcall.result.should_review
    /\ mcall.result.application_id # NoId

\* What each strategy yields for the call made, {} when match does not attempt it.
ExactYield ==
    IF mcall.fact.company_name # NoName /\ mcall.fact.job_title # NoName
    THEN _match_exact(applications, mcall.user, mcall.fact.company_name, mcall.fact.job_title)
    ELSE {}

FuzzyYield ==
    IF mcall.fact.company_name # NoName /\ mcall.fact.job_title # NoName
    THEN _match_fuzzy(applications, mcall.user, mcall.fact.company_name,
                      mcall.fact.job_title, now)
    ELSE {}

DomainYield ==
    IF mcall.fact.company_name # NoName
    THEN _match_by_domain_and_time(applications, mcall.user, mcall.fact.company_name,
                                   mcall.email_date)
    ELSE {}

TitleYield ==
    IF mcall.fact.job_title # NoName
    THEN _match_by_subject_similarity(applications, mcall.user, mcall.fact.job_title,
                                      mcall.email_date)
    ELSE {}

\* C18: match returns the result of the first strategy, in the order exact,
\* fuzzy, domain/time, title similarity, that yields one, and the no-match
\* decision only when all four yield none; an ambiguous domain/time result
\* prevents the title-similarity match and the creation of an application.
\* Exact and fuzzy are attempted only with company and title both present,
\* domain/time only with the company, title similarity only with the title.
C18_FirstStrategyWins ==
    Called =>
        LET r == mcall.result
            both == mcall.fact.company_name # NoName /\ mcall.fact.job_title # NoName
        IN  /\ r.match_type \in {"exact", "fuzzy", "domain_time", "domain_time_ambiguous",
                                 "subject_similarity", "no_match", "no_match_low_confidence"}
            /\ r.match_type = "exact" => both /\ r \in ExactYield
            /\ r.match_type = "fuzzy" => both /\ ExactYield = {} /\ r \in FuzzyYield
            /\ r.match_type \in {"domain_time", "domain_time_ambiguous"} =>
                  /\ mcall.fact.company_name # NoName
                  /\ ExactYield = {} /\ FuzzyYield = {}
                  /\ r \in DomainYield
            /\ r.match_type = "domain_time_ambiguous" => ~r.is_new /\ r.application_id = NoId
            /\ r.match_type = "subject_similarity" =>
                  /\ mcall.fact.job_title # NoName
                  /\ ExactYield = {} /\ FuzzyYield = {} /\ DomainYield = {}
                  /\ r \in TitleYield
            /\ r.match_type \in {"no_match", "no_match_low_confidence"} =>
                  /\ ExactYield = {} /\ FuzzyYield = {} /\ DomainYield = {} /\ TitleYield = {}
                  /\ r = _handle_no_match(mcall.fact)

\* The ambiguous domain/time result was returned although the title-similarity
\* strategy had an Application to return.
C18_Witness ==
    /\ Called
    /\ mcall.result.match_type = "domain_time_ambiguous"
    /\ mcall.fact.job_title # NoName
    /\ TitleYield # {}

\* The user's Applications created within the trailing 60 days of the call.
CreatedInWindow ==
    {a \in applications : a.user_id = mcall.user /\ a.created_at >= now - 60}

\* 0.6 * company similarity + 0.4 * title similarity, against the extracted names.
Score(a) == CombinedSim(a, mcall.fact.company_name, mcall.fact.job_title)

ReachThreshold == {a \in CreatedInWindow : Score(a) >= Pct(80)}

SameCompany ==
    {a \in applications :
        /\ a.user_id = mcall.user
        /\ Contains(Lower(a.company_name), Lower(Strip(mcall.fact.company_name)))}

\* Those of them with a latest email no earlier than 60 days before the email.
NotLongBefore ==
    {a \in SameCompany :
        a.latest_email_date # NoDate /\ a.latest_email_date >= mcall.email_date - 60}

\* Those of them with a latest email within the 60 days before the email.
WithinBefore == {a \in NotLongBefore : a.latest_email_date <= mcall.email_date}

\* match reaches the domain/time strategy.
DomainTimeReached ==
    /\ Called
    /\ mcall.fact.company_name # NoName
    /\ ExactYield = {} /\ FuzzyYield = {}

\* What the domain/time strategy returns when cands are its candidates.
DomainTimeOutcome(cands) ==
    /\ Cardinality(cands) = 1 =>
          \E a \in cands : mcall.result = MatchResult(a.id, "domain_time", Pct(75), FALSE, TRUE)
    /\ Cardinality(cands) > 1 =>
          mcall.result = MatchResult(NoId, "domain_time_ambiguous", Pct(50), FALSE, TRUE)
    /\ cands = {} => mcall.result.match_type \notin {"domain_time", "domain_time_ambiguous"}

\* C20 (amended): the domain/time strategy, over the user's Applications whose
\* company name contains the extracted company and whose latest email is no
\* earlier than 60 days before the email date (it may be later than the email):
\* with exactly one candidate it returns that application id with confidence
\* 0.75 and should_review true; with more than one it returns no application
\* id, confidence 0.5 and should_review true; with none it yields nothing and
\* the cascade continues.  It never returns should_review false.
C20_DomainTimeCandidates ==
    /\ DomainTimeReached => DomainTimeOutcome(NotLongBefore)
    /\ (Called /\ mcall.result.match_type \in {"domain_time", "domain_time_ambiguous"})
          => mcall.result.should_review

\* C20 as stated: the candidates are the Applications whose latest activity
\* lies within the 60 days before the email date.
C20_WindowBeforeEmail ==
    /\ DomainTimeReached => DomainTimeOutcome(WithinBefore)
    /\ (Called /\ mcall.result.match_type \in {"domain_time", "domain_time_ambiguous"})
          => mcall.result.should_review

\* The single candidate was returned for review; its latest email is later
\* than the email matched.
C20_Witness ==
    /\ DomainTimeReached
    /\ mcall.result.match_type = "domain_time"
    /\ mcall.result.should_review
    /\ \E a \in NotLongBefore :
          a.id = mcall.result.application_id /\ a.latest_email_date > mcall.email_date

-----------------------------------------------------------------------------
(* The emails handed to process_email *)

BODY_PREFIX_LEN == 500

\* A body of BODY_PREFIX_LEN + 1 characters that ends in c: two such bodies
\* agree on their first 500 characters.
LongBody(c) == [i \in 1..(BODY_PREFIX_LEN + 1) |-> IF i <= BODY_PREFIX_LEN THEN "x" ELSE c]

\* UnwrappedEmail, as far as process_email reads it.
Unwrapped(from, subject, date, body) ==
    [clean_body_text |-> body, original_date |-> date, original_from |-> from,
     original_subject |-> subject]

\* unwrap of a body without a forward marker: original_* None, body passed through.
NotForwarded(body) == Unwrapped(NoName, NoName, NoDate, body)

\* One email of the mailbox: the arguments of process_email, with what
\* unwrapper.unwrap returns for its bodies and what extractor.extract returns
\* for its effective subject, body, sender and date.
Email(mid, from, subject, received, body, unwrapped, fact) ==
    [body_text |-> body, fact |-> fact, outlook_from |-> from,
     outlook_message_id |-> mid, outlook_subject |-> subject,
     received_datetime |-> received, unwrapped |-> unwrapped]

Forwarder == <<"m", "e", "@", "x">>
Recruiter == <<"h", "r", "@", "a", "b">>
FwdBanner == <<"F", "w", "d", ":">>

UnknownCompany == <<"U", "n", "k", "n", "o", "w", "n", " ", "C", "o", "m", "p", "a", "n", "y">>
UnknownPosition == <<"U", "n", "k", "n", "o", "w", "n", " ", "P", "o", "s", "i", "t", "i", "o", "n">>

Inbox ==
    << \* 1: a forwarded application confirmation of "ab" for the position "t"
       Email("m1", Forwarder, FwdBanner \o <<"a", "p", "p">>, 101, FwdBanner \o LongBody("a"),
             Unwrapped(Recruiter, <<"a", "p", "p">>, 100, LongBody("a")),
             MkFact(<<"a", "b">>, <<"t">>, "APPLIED_RECEIVED", FALSE, 1, Pct(78))),
       \* 2: the same original message forwarded again: another transport id and
       \*    received date, a body that differs only after its 500th character
       Email("m2", Forwarder, FwdBanner \o <<"a", "p", "p">>, 102, FwdBanner \o LongBody("b"),
             Unwrapped(Recruiter, <<"a", "p", "p">>, 100, LongBody("b")),
             MkFact(<<"a", "b">>, <<"t">>, "APPLIED_RECEIVED", FALSE, 1, Pct(78))),
       \* 3: a direct assessment invitation of "AB" for "t", dated earlier
       Email("m3", Recruiter, <<"t", "e", "s", "t">>, 90, <<"d", "o">>,
             NotForwarded(<<"d", "o">>),
             MkFact(<<"A", "B">>, <<"t">>, "NEXT_STEP_ASSESSMENT", TRUE, 1, Pct(78))),
       \* 4, 5: two different emails in which neither company nor title is found
       Email("m4", Recruiter, <<"h", "i">>, 100, <<"o", "k">>,
             NotForwarded(<<"o", "k">>),
             MkFact(NoName, NoName, "APPLIED_RECEIVED", FALSE, 0, Pct(65))),
       Email("m5", Recruiter, <<"n", "o">>, 100, <<"n", "o">>,
             NotForwarded(<<"n", "o">>),
             MkFact(NoName, NoName, "REJECTED", FALSE, 0, Pct(65))),
       \* 6: a company-only extraction of low confidence
       Email("m6", Recruiter, <<"a", "b">>, 100, <<"u", "p">>,
             NotForwarded(<<"u", "p">>),
             MkFact(<<"a", "b">>, NoName, "OTHER_UPDATE", FALSE, 0, Pct(50))),
       \* 7: the invitation of 3 once more: another transport id, received later
       Email("m7", Recruiter, <<"t", "e", "s", "t">>, 95, <<"d", "o">>,
             NotForwarded(<<"d", "o">>),
             MkFact(<<"A", "B">>, <<"t">>, "NEXT_STEP_ASSESSMENT", TRUE, 1, Pct(78))),
       \* 8: a direct reminder that the application to "ab" for "t" was received
       Email("m8", Recruiter, <<"r", "e">>, 110, <<"r", "e">>,
             NotForwarded(<<"r", "e">>),
             MkFact(<<"a", "b">>, <<"t">>, "APPLIED_RECEIVED", FALSE, 0, Pct(78))) >>

EmailIds == 1..Len(Inbox)

-----------------------------------------------------------------------------
(* generate_email_fingerprint *)

IsoFormat(date) == IF date = NoDate THEN <<>> ELSE <<ToString(date)>>

Prefix(body, n) == SubSeq(body, 1, IF Len(body) < n THEN Len(body) ELSE n)

\* '|'.join(components)
FingerprintInput(original_from, original_subject, original_date, body_prefix) ==
    original_from \o <<"|">> \o original_subject \o <<"|">> \o IsoFormat(original_date)
        \o <<"|">> \o Prefix(body_prefix, BODY_PREFIX_LEN)

\* What process_email passes to generate_email_fingerprint for an email.
OrElse(a, b) == IF a # <<>> THEN a ELSE b

FingerprintInputOf(e) ==
    FingerprintInput(OrElse(e.unwrapped.original_from, e.outlook_from),
                     OrElse(e.unwrapped.original_subject, e.outlook_subject),
                     e.unwrapped.original_date,
                     Prefix(OrElse(e.unwrapped.clean_body_text, e.body_text), BODY_PREFIX_LEN))

\* The arguments generate_email_fingerprint is called with on its own.
ArgFroms == <<NoName, Recruiter>>
ArgSubjects == <<NoName, <<"a", "p", "p">>>>
ArgDates == <<NoDate, 100, 101>>
ArgBodies == <<NoName, LongBody("a"), LongBody("b")>>

FingerprintArgs ==
    [k \in 1..(Len(ArgFroms) * Len(ArgSubjects) * Len(ArgDates) * Len(ArgBodies)) |->
        << ArgFroms[((k - 1) % Len(ArgFroms)) + 1],
           ArgSubjects[(((k - 1) \div Len(ArgFroms)) % Len(ArgSubjects)) + 1],
           ArgDates[(((k - 1) \div (Len(ArgFroms) * Len(ArgSubjects))) % Len(ArgDates)) + 1],
           ArgBodies[((k - 1) \div (Len(ArgFroms) * Len(ArgSubjects) * Len(ArgDates))) + 1] >>]

\* hashlib.sha256(...): collision-free on the inputs that occur; the digest, as
\* a number, is the place of the input in the list of the inputs of the inbox
\* and of the calls above.
HashInputs ==
    [k \in EmailIds |-> FingerprintInputOf(Inbox[k])]
    \o [k \in 1..Len(FingerprintArgs) |->
           FingerprintInput(FingerprintArgs[k][1], FingerprintArgs[k][2],
                            FingerprintArgs[k][3], FingerprintArgs[k][4])]

Sha256(x) ==
    CHOOSE k \in 1..Len(HashInputs) :
        HashInputs[k] = x /\ \A j \in 1..(k - 1) : HashInputs[j] # x

HexChar(d) ==
    <<"0", "1", "2", "3", "4", "5", "6", "7", "8", "9", "a", "b", "c", "d", "e", "f">>[d + 1]

\* n \div 16^k for the numbers of the model, which are below 16^8.
ShiftRight(n, k) == IF k > 7 THEN 0 ELSE n \div (16 ^ k)

\* The last len hexadecimal digits of n, padded with zeros on the left.
HexDigits(n, len) == [i \in 1..len |-> HexChar(ShiftRight(n, len - i) % 16)]

\* sha256 digests have 32 bytes, written as two hexadecimal digits each.
DIGEST_SIZE == 32

\* .hexdigest()
HexDigest(digest) == HexDigits(digest, 2 * DIGEST_SIZE)

\* The digest with the time of the call in the place of an absent date.
FingerprintAtCallTime(original_from, original_subject, original_date, body_prefix) ==
    HexDigest(Sha256(FingerprintInput(original_from, original_subject,
                                      IF original_date = NoDate THEN now ELSE original_date,
                                      body_prefix)))

generate_email_fingerprint(original_from, original_subject, original_date, body_prefix) ==
    HexDigest(Sha256(FingerprintInput(original_from, original_subject, original_date,
                                      body_prefix)))

Fingerprint(e) == Sha256(FingerprintInputOf(e))

\* extraction_date = unwrapped.original_date or received_datetime
ExtractionDate(e) ==
    IF e.unwrapped.original_date # NoDate THEN e.unwrapped.original_date
    ELSE e.received_datetime

-----------------------------------------------------------------------------
(* The database and the sessions of process_email *)

Sessions == {1, 2}
MaxCalls == 3

Pending == {"insert", "dedupe", "match", "create", "commit"}

\* The tables as committed; a session's flushed rows are in sess until commit.
tables == <<rawEmails, applications, events, links, reviews>>

NoApp == MkApplication(NoId, NoId, NoName, NoName, "None", NoDate, NoDate)

\* A session between two batches: nothing loaded, nothing pending.
IdleSess ==
    [app |-> NoApp, batch_size |-> 0, cur |-> 0, left |-> 0, mr |-> NoMatchResult,
     pc |-> "idle", raw_id |-> NoId, user_id |-> NoId]

RawEmailRow(id, user_id, e, processed, processing_error) ==
    [email_fingerprint |-> Fingerprint(e), id |-> id,
     outlook_message_id |-> e.outlook_message_id,
     overall_confidence |-> e.fact.overall_confidence,
     processed |-> processed, processing_error |-> processing_error, user_id |-> user_id]

ProcessingResult(raw_email_id, success, application_id, is_new, review, error, confidence) ==
    [application_id |-> application_id, confidence |-> confidence, error |-> error,
     is_new_application |-> is_new, needs_manual_review |-> review,
     raw_email_id |-> raw_email_id, success |-> success]

\* existing.events[0].application_id if existing.events else None
FirstEventApplication(raw_email_id) ==
    LET of == SelectSeq(events, LAMBDA ev : ev.raw_email_id = raw_email_id)
    IN  IF of # <<>> THEN of[1].application_id ELSE NoId

\* A step 1 that finds no row, whatever the table holds.
NoExisting(raws, user_id, mid) == {}

\* Step 1 of process_email: the rows of this user with this transport id.
ExistingByMessageId(raws, user_id, mid) ==
    {r \in raws : r.outlook_message_id = mid /\ r.user_id = user_id}

\* The fingerprint lookup: rows of this user, other than the call's own.
ExistingByFingerprint(raws, user_id, fp, own_id) ==
    {r \in raws : r.email_fingerprint = fp /\ r.id # own_id /\ r.user_id = user_id}

\* raw_emails.outlook_message_id is unique=True over the whole table.
MessageIdTaken(raws, mid) == \E r \in raws : r.outlook_message_id = mid

\* raw_emails.email_fingerprint is unique=True over the whole table.
FingerprintTaken(raws, fp, own_id) ==
    \E r \in raws : r.email_fingerprint = fp /\ r.id # own_id

\* A table without uq_user_application_company_title.
NoAppKeyCheck(apps, row) == FALSE

\* uq_user_application_company_title
AppKeyTaken(apps, row) == \E a \in apps : AppKey(a) = AppKey(row)

ErrMessageId == "IntegrityError: raw_emails.outlook_message_id"
ErrFingerprint == "IntegrityError: raw_emails.email_fingerprint"
ErrAppKey == "IntegrityError: uq_user_application_company_title"
ErrNotFound == "Application not found"
DuplicateNote == "Duplicate (fingerprint match)"

\* process_email returns r: the result joins the batch's list and the session
\* forgets the call; left is the number of emails the batch has yet to start.
Returned(s, left, r) ==
    /\ results' = [results EXCEPT ![s] = Append(@, r)]
    /\ sess' = [sess EXCEPT ![s] =
                   [IdleSess EXCEPT !.pc = IF left = 0 THEN "idle" ELSE "next",
                                    !.user_id = sess[s].user_id, !.batch_size = sess[s].batch_size,
                                    !.left = left]]

\* The exception leaves process_email: process_batch ends without a list.
PropagateException(s, raw_email_id, err) ==
    /\ sess' = [sess EXCEPT ![s] = [IdleSess EXCEPT !.user_id = sess[s].user_id,
                                                    !.batch_size = sess[s].batch_size]]
    /\ UNCHANGED <<results, tables>>

\* The except branch: rollback drops everything the call flushed, the RawEmail
\* row included, so the commit that follows writes nothing; a failed result.
HandleException(s, raw_email_id, err) ==
    /\ Returned(s, sess[s].left,
                ProcessingResult(raw_email_id, FALSE, NoId, FALSE, FALSE, err, 0))
    /\ UNCHANGED tables

Init ==
    /\ applications = {}
    /\ now = 100
    /\ mcall = NoCall /\ call = Uncalled
    /\ rawEmails = {}
    /\ events = <<>>
    /\ links = {}
    /\ reviews = {}
    /\ nextId = [app |-> 1, raw |-> 1]
    /\ sess = [s \in Sessions |-> IdleSess]
    /\ batch = [s \in Sessions |-> <<>>]
    /\ results = [s \in Sessions |-> <<>>]
    /\ ncalls = 0
    /\ syncLocks = <<>>
    /\ syncStates = <<>>
    /\ tasks = <<>>
    /\ requests = <<>>

-----------------------------------------------------------------------------
(* The rows process_email writes *)

_create_application(id, user_id, fact, email_date, utcnow) ==
    [action_deadline |-> fact.action_deadline,
     action_description |-> fact.action_description,
     action_required |-> fact.action_required, action_type |-> fact.action_type,
     application_date |-> email_date,
     company_name |-> OrElse(fact.company_name, UnknownCompany),
     created_at |-> utcnow, current_status |-> fact.status, event_count |-> 0,
     first_seen_date |-> email_date, id |-> id,
     job_title |-> OrElse(fact.job_title, UnknownPosition),
     latest_email_date |-> email_date, link_count |-> fact.nlinks,
     status_updated_at |-> email_date, user_id |-> user_id]

\* "email_date > application.latest_email_date" compares with None when the
\* row was never given a latest_email_date: a TypeError.
UpdateRaises(app) == app.latest_email_date = NoDate

ErrCompare == "TypeError: '>' not supported between datetime and NoneType"

\* An update that lets only the newest email, by its date, decide the status.
UpdateInEmailDateOrder(app, fact, email_date) ==
    LET newer == email_date > app.latest_email_date
        status_changed == newer /\ fact.status # app.current_status
    IN  [app EXCEPT
            !.current_status = IF newer THEN fact.status ELSE @,
            !.status_updated_at = IF status_changed THEN email_date ELSE @,
            !.action_required = IF fact.action_required THEN TRUE ELSE @,
            !.action_type = IF fact.action_required THEN fact.action_type ELSE @,
            !.action_deadline = IF fact.action_required THEN fact.action_deadline ELSE @,
            !.action_description =
                IF fact.action_required THEN fact.action_description ELSE @,
            !.latest_email_date = IF newer THEN email_date ELSE @,
            !.event_count = @ + 1,
            !.link_count = @ + fact.nlinks]

_update_application(app, fact, email_date) ==
    LET status_changed == fact.status # app.current_status
    IN  [app EXCEPT
            !.current_status = fact.status,
            !.status_updated_at = IF status_changed THEN email_date ELSE @,
            !.action_required = IF fact.action_required THEN TRUE ELSE @,
            !.action_type = IF fact.action_required THEN fact.action_type ELSE @,
            !.action_deadline = IF fact.action_required THEN fact.action_deadline ELSE @,
            !.action_description =
                IF fact.action_required THEN fact.action_description ELSE @,
            !.latest_email_date = IF email_date > @ THEN email_date ELSE @,
            !.event_count = @ + 1,
            !.link_count = @ + fact.nlinks]

\* The UPDATE the unit of work emits at flush: the attributes whose value the
\* call changed, written over the row as it is in the table by then.
FlushUpdate(current, loaded, changed) ==
    LET Written(new, old, cur) == IF new # old THEN new ELSE cur
    IN  [current EXCEPT
            !.current_status = Written(changed.current_status, loaded.current_status, @),
            !.status_updated_at =
                Written(changed.status_updated_at, loaded.status_updated_at, @),
            !.action_required = Written(changed.action_required, loaded.action_required, @),
            !.action_type = Written(changed.action_type, loaded.action_type, @),
            !.action_deadline = Written(changed.action_deadline, loaded.action_deadline, @),
            !.action_description =
                Written(changed.action_description, loaded.action_description, @),
            !.latest_email_date =
                Written(changed.latest_email_date, loaded.latest_email_date, @),
            !.event_count = Written(changed.event_count, loaded.event_count, @),
            !.link_count = Written(changed.link_count, loaded.link_count, @)]

_create_event(application_id, raw_email_id, fact, event_date) ==
    [application_id |-> application_id, event_date |-> event_date,
     raw_email_id |-> raw_email_id, status |-> fact.status]

_create_links(application_id, raw_email_id, fact) ==
    {[application_id |-> application_id,
      expires_at |-> IF fact.action_required THEN fact.action_deadline ELSE NoDate,
      link_no |-> k, raw_email_id |-> raw_email_id] :
        k \in 1..fact.nlinks}

\* A ManualReview that names no candidate Application.
ReviewWithoutCandidate(user_id, raw_email_id, fact, match_result) ==
    [application_id |-> NoId,
     confidence |-> match_result.confidence, raw_email_id |-> raw_email_id,
     reason |-> match_result.match_type,
     reviewed |-> FALSE, suggested_company |-> fact.company_name,
     suggested_job_title |-> fact.job_title, suggested_status |-> fact.status,
     user_id |-> user_id]

\* reason is the text match wrote for its match_type.
_create_manual_review(user_id, raw_email_id, fact, match_result) ==
    [application_id |-> match_result.application_id,
     confidence |-> match_result.confidence, raw_email_id |-> raw_email_id,
     reason |-> match_result.match_type,
     reviewed |-> FALSE, suggested_company |-> fact.company_name,
     suggested_job_title |-> fact.job_title, suggested_status |-> fact.status,
     user_id |-> user_id]

-----------------------------------------------------------------------------
(* process_batch and the steps of process_email, one session each *)

CurrentEmail(s) == Inbox[sess[s].cur]

\* An INSERT waits while another transaction holds an uncommitted row with the
\* same unique key, and is decided when that transaction ends.
HoldsMessageId(t, mid) ==
    sess[t].raw_id # NoId /\ CurrentEmail(t).outlook_message_id = mid

HoldsAppKey(t, row) ==
    sess[t].pc = "commit" /\ sess[t].mr.is_new /\ AppKey(sess[t].app) = AppKey(row)

\* The new Application committed on its own as soon as it is added (autocommit).
CommitApplicationAtOnce(apps, row) == apps \cup {row}

\* flush of the new Application: the row stays in the session's transaction.
FlushApplication(apps, row) == apps

\* process_batch(emails) is called with n emails by a processor of user u.
StartBatch(s, u, n) ==
    /\ sess[s].pc = "idle"
    /\ ncalls + n <= MaxCalls
    /\ ncalls' = ncalls + n
    /\ sess' = [sess EXCEPT ![s] = [IdleSess EXCEPT !.pc = "next", !.user_id = u,
                                                    !.batch_size = n, !.left = n]]
    /\ batch' = [batch EXCEPT ![s] = <<>>]
    /\ results' = [results EXCEPT ![s] = <<>>]
    /\ UNCHANGED <<tables, nextId, now, mcall, call, syncVars>>

\* The loop takes the next email, e, and process_email looks its transport id up.
Lookup(s, e) ==
    /\ sess[s].pc = "next"
    /\ batch' = [batch EXCEPT ![s] = Append(@, e)]
    /\ LET existing == ExistingByMessageId(rawEmails, sess[s].user_id,
                                           Inbox[e].outlook_message_id)
       IN  IF existing # {}
           THEN \E x \in existing :
                    Returned(s, sess[s].left - 1,
                             ProcessingResult(x.id, TRUE, FirstEventApplication(x.id),
                                              FALSE, FALSE, "None", x.overall_confidence))
           ELSE /\ sess' = [sess EXCEPT ![s].pc = "insert", ![s].cur = e,
                                        ![s].left = @ - 1]
                /\ UNCHANGED results
    /\ UNCHANGED <<tables, nextId, ncalls, now, mcall, call, syncVars>>

\* db.add(raw_email); db.flush()
InsertRaw(s) ==
    /\ sess[s].pc = "insert"
    /\ LET mid == CurrentEmail(s).outlook_message_id
       IN  /\ \A t \in Sessions \ {s} : ~HoldsMessageId(t, mid)
           /\ IF MessageIdTaken(rawEmails, mid)
              THEN HandleException(s, NoId, ErrMessageId)
              ELSE /\ sess' = [sess EXCEPT ![s].pc = "dedupe", ![s].raw_id = nextId.raw]
                   /\ UNCHANGED <<results, tables>>
    /\ nextId' = [nextId EXCEPT !.raw = @ + 1]
    /\ UNCHANGED <<batch, ncalls, now, mcall, call, syncVars>>

\* unwrap, extract, fingerprint, the fingerprint lookup and the duplicate branch
Dedupe(s) ==
    /\ sess[s].pc = "dedupe"
    /\ LET e == CurrentEmail(s)
           id == sess[s].raw_id
           existing == ExistingByFingerprint(rawEmails, sess[s].user_id, Fingerprint(e), id)
       IN  IF existing # {}
           THEN \E x \in existing :
                    IF FingerprintTaken(rawEmails, Fingerprint(e), id)
                    THEN HandleException(s, id, ErrFingerprint)
                    ELSE /\ rawEmails' = rawEmails \cup
                                {RawEmailRow(id, sess[s].user_id, e, TRUE, DuplicateNote)}
                         /\ Returned(s, sess[s].left,
                                     ProcessingResult(id, TRUE, FirstEventApplication(x.id),
                                                      FALSE, FALSE, "Duplicate email",
                                                      e.fact.overall_confidence))
                         /\ UNCHANGED <<applications, events, links, reviews>>
           ELSE /\ sess' = [sess EXCEPT ![s].pc = "match"]
                /\ UNCHANGED <<results, tables>>
    /\ UNCHANGED <<batch, nextId, ncalls, now, mcall, call, syncVars>>

\* matcher.match and the choice of the branch; the update branch changes the
\* loaded Application, the review branch adds the ManualReview, in the session.
MatchStep(s) ==
    /\ sess[s].pc = "match"
    /\ LET e == CurrentEmail(s)
       IN  \E r \in Match(applications, sess[s].user_id, e.fact, ExtractionDate(e), now) :
              IF r.should_review
              THEN /\ sess' = [sess EXCEPT ![s].pc = "commit", ![s].mr = r]
                   /\ UNCHANGED <<results, tables>>
              ELSE IF r.is_new
              THEN /\ sess' = [sess EXCEPT ![s].pc = "create", ![s].mr = r]
                   /\ UNCHANGED <<results, tables>>
              ELSE LET found == {a \in applications : a.id = r.application_id}
                   IN  IF found = {}
                       THEN HandleException(s, sess[s].raw_id, ErrNotFound)
                       ELSE \E a \in found :
                               IF UpdateRaises(a)
                               THEN HandleException(s, sess[s].raw_id, ErrCompare)
                               ELSE /\ sess' = [sess EXCEPT ![s].pc = "commit",
                                                            ![s].mr = r, ![s].app = a]
                                    /\ UNCHANGED <<results, tables>>
    /\ UNCHANGED <<batch, nextId, ncalls, now, mcall, call, syncVars>>

\* _create_application: db.add(application); db.flush()
CreateApplication(s) ==
    /\ sess[s].pc = "create"
    /\ LET e == CurrentEmail(s)
           row == _create_application(nextId.app, sess[s].user_id, e.fact,
                                      ExtractionDate(e), now)
       IN  /\ \A t \in Sessions \ {s} : ~HoldsAppKey(t, row)
           /\ IF AppKeyTaken(applications, row)
              THEN HandleException(s, sess[s].raw_id, ErrAppKey)
              ELSE /\ sess' = [sess EXCEPT ![s].pc = "commit", ![s].app = row]
                   /\ applications' = FlushApplication(applications, row)
                   /\ UNCHANGED <<results, rawEmails, events, links, reviews>>
    /\ nextId' = [nextId EXCEPT !.app = @ + 1]
    /\ UNCHANGED <<batch, ncalls, now, mcall, call, syncVars>>

\* db.commit() of the review, create and update branches: the flush of what the
\* session holds, the RawEmail's fingerprint included, and the commit.
Commit(s) ==
    /\ sess[s].pc = "commit"
    /\ LET e == CurrentEmail(s)
           id == sess[s].raw_id
           r == sess[s].mr
           a == sess[s].app
           date == ExtractionDate(e)
       IN  IF FingerprintTaken(rawEmails, Fingerprint(e), id)
           THEN HandleException(s, id, ErrFingerprint)
           ELSE /\ rawEmails' = rawEmails \cup
                       {RawEmailRow(id, sess[s].user_id, e, TRUE, "None")}
                /\ IF r.should_review
                   THEN /\ reviews' = reviews \cup
                               {_create_manual_review(sess[s].user_id, id, e.fact, r)}
                        /\ UNCHANGED <<applications, events, links>>
                        /\ Returned(s, sess[s].left,
                                    ProcessingResult(id, TRUE, r.application_id, FALSE, TRUE,
                                                     "None", r.confidence))
                   ELSE /\ applications' =
                               IF r.is_new THEN applications \cup {a}
                               ELSE {IF x.id = a.id
                                     THEN FlushUpdate(x, a, _update_application(a, e.fact, date))
                                     ELSE x : x \in applications}
                        /\ events' = Append(events, _create_event(a.id, id, e.fact, date))
                        /\ links' = links \cup _create_links(a.id, id, e.fact)
                        /\ UNCHANGED reviews
                        /\ Returned(s, sess[s].left,
                                    ProcessingResult(id, TRUE, a.id, r.is_new, FALSE, "None",
                                                     e.fact.overall_confidence))
    /\ UNCHANGED <<batch, nextId, ncalls, now, mcall, call, syncVars>>

Next ==
    \/ \E s \in Sessions, u \in Users, n \in 1..MaxCalls : StartBatch(s, u, n)
    \/ \E s \in Sessions, e \in EmailIds : Lookup(s, e)
    \/ \E s \in Sessions : InsertRaw(s)
    \/ \E s \in Sessions : Dedupe(s)
    \/ \E s \in Sessions : MatchStep(s)
    \/ \E s \in Sessions : CreateApplication(s)
    \/ \E s \in Sessions : Commit(s)

Spec == Init /\ [][Next]_vars

\* One processor at a time: every process_email call returns before the next
\* one begins.
NextInSequence ==
    \/ \E u \in Users, n \in 1..MaxCalls : StartBatch(1, u, n)
    \/ \E e \in EmailIds : Lookup(1, e)
    \/ InsertRaw(1)
    \/ Dedupe(1)
    \/ MatchStep(1)
    \/ CreateApplication(1)
    \/ Commit(1)

SpecInSequence == Init /\ [][NextInSequence]_vars

\* matcher = ApplicationMatcher(db, user_id); matcher.find_candidates(company,
\* job_title), once per behaviour, on the tables as they are by then.
FindCandidates(user_id, company, job_title) ==
    /\ call = Uncalled
    /\ \E r \in find_candidates(applications, user_id, company, job_title, now) :
           call' = [company_name |-> company, function |-> "find_candidates",
                    job_title |-> job_title, result |-> r, user_id |-> user_id]
    /\ UNCHANGED <<applications, now, mcall, pipelineVars, syncVars>>

\* The processors of the users, one call at a time, and the candidate query.
NextOfUsers ==
    \/ NextInSequence
    \/ \E user_id \in Users, company \in {NoName, <<"a", "b">>}, job_title \in {NoName, <<"t">>} :
          FindCandidates(user_id, company, job_title)

SpecOfUsers == Init /\ [][NextOfUsers]_vars

-----------------------------------------------------------------------------
(* Claims about process_email and process_batch, checked under Spec *)

InFlight(s) == sess[s].pc \in Pending

Done(s) == 1..Len(results[s])

EmailAt(s, i) == Inbox[batch[s][i]]

WritesOf(raw_email_id) ==
    {i \in 1..Len(events) : events[i].raw_email_id = raw_email_id}

HasWrites(raw_email_id) ==
    \/ WritesOf(raw_email_id) # {}
    \/ \E l \in links : l.raw_email_id = raw_email_id
    \/ \E v \in reviews : v.raw_email_id = raw_email_id

\* Same effective sender, subject, original date and first 500 body characters.
SameContent(e1, e2) ==
    /\ OrElse(e1.unwrapped.original_from, e1.outlook_from)
         = OrElse(e2.unwrapped.original_from, e2.outlook_from)
    /\ OrElse(e1.unwrapped.original_subject, e1.outlook_subject)
         = OrElse(e2.unwrapped.original_subject, e2.outlook_subject)
    /\ e1.unwrapped.original_date = e2.unwrapped.original_date
    /\ Prefix(OrElse(e1.unwrapped.clean_body_text, e1.body_text), BODY_PREFIX_LEN)
         = Prefix(OrElse(e2.unwrapped.clean_body_text, e2.body_text), BODY_PREFIX_LEN)

\* C1: once an email was processed successfully, a later call of the same
\* processor with another transport id but the same effective sender, subject,
\* original date and first 500 body characters returns a duplicate-classified
\* result (success, not new, no review) and writes no event, link or review
\* for that email.
C1_FingerprintDuplicate ==
    \A s \in Sessions : \A i, j \in Done(s) :
        (/\ i < j
         /\ results[s][i].success
         /\ \E row \in rawEmails : row.id = results[s][i].raw_email_id /\ row.processed
         /\ HasWrites(results[s][i].raw_email_id)
         /\ EmailAt(s, i).outlook_message_id # EmailAt(s, j).outlook_message_id
         /\ SameContent(EmailAt(s, i), EmailAt(s, j)))
        => /\ results[s][j].success
           /\ ~results[s][j].is_new_application
           /\ ~results[s][j].needs_manual_review
           /\ \A row \in rawEmails :
                 (/\ row.user_id = sess[s].user_id
                  /\ row.outlook_message_id = EmailAt(s, j).outlook_message_id)
                 => ~HasWrites(row.id)

EmailOfRow(row) ==
    Inbox[CHOOSE k \in EmailIds : Inbox[k].outlook_message_id = row.outlook_message_id]

\* C2: the writes of one process_email call become visible together or not
\* at all. No committed row belongs to a call still in flight; a committed
\* RawEmail is processed and has its whole branch with it (its event with all
\* its links and its application, or its review, or the duplicate note); no
\* event, link, review or application is committed without the rest.
C2_Atomic ==
    /\ \A s \in Sessions : InFlight(s) /\ sess[s].raw_id # NoId =>
          /\ \A row \in rawEmails : row.id # sess[s].raw_id
          /\ ~HasWrites(sess[s].raw_id)
          /\ sess[s].pc = "commit" /\ sess[s].mr.is_new =>
                \A a \in applications : a.id # sess[s].app.id
    /\ \A row \in rawEmails :
          /\ row.processed
          /\ \/ /\ Cardinality(WritesOf(row.id)) = 1
                /\ \A i \in WritesOf(row.id) :
                      /\ \E a \in applications : a.id = events[i].application_id
                      /\ Cardinality({l \in links :
                                         /\ l.raw_email_id = row.id
                                         /\ l.application_id = events[i].application_id})
                           = EmailOfRow(row).fact.nlinks
                /\ \A v \in reviews : v.raw_email_id # row.id
             \/ /\ Cardinality({v \in reviews : v.raw_email_id = row.id}) = 1
                /\ WritesOf(row.id) = {}
                /\ \A l \in links : l.raw_email_id # row.id
             \/ /\ row.processing_error = DuplicateNote
                /\ ~HasWrites(row.id)
    /\ \A i \in 1..Len(events) : \E row \in rawEmails : row.id = events[i].raw_email_id
    /\ \A l \in links : \E i \in WritesOf(l.raw_email_id) :
          events[i].application_id = l.application_id
    /\ \A v \in reviews : \E row \in rawEmails : row.id = v.raw_email_id
    /\ \A a \in applications : \E i \in 1..Len(events) : events[i].application_id = a.id

\* A call that had flushed a new Application failed at its commit and left
\* nothing behind: an application id was used up by a row that is not there,
\* next to a committed application.
C2_Witness ==
    /\ applications # {}
    /\ nextId.app > Cardinality(applications) + 1
    /\ \E s \in Sessions : \E i \in Done(s) :
          /\ results[s][i].error = ErrFingerprint
          /\ \A row \in rawEmails :
                row.email_fingerprint = Fingerprint(EmailAt(s, i)) =>
                    row.user_id # sess[s].user_id

FailedResult(r) ==
    /\ ~r.success
    /\ r.application_id = NoId
    /\ ~r.is_new_application
    /\ ~r.needs_manual_review
    /\ r.confidence = 0
    /\ r.error # "None"

\* C3: no failure leaves process_email: a failed call returns a result with
\* success false, no application id, not new, no review, confidence 0 and an
\* error message; process_batch goes on with the next email, and when it
\* returns it has one result for each of its n emails, in the order given.
C3_FailuresReturned ==
    \A s \in Sessions :
        /\ Len(batch[s]) = Len(results[s]) + (IF InFlight(s) THEN 1 ELSE 0)
        /\ sess[s].left + Len(batch[s]) = sess[s].batch_size
        /\ sess[s].pc = "idle" => Len(results[s]) = sess[s].batch_size
        /\ \A i \in Done(s) :
              /\ ~results[s][i].success => FailedResult(results[s][i])
              /\ \A row \in rawEmails : row.id = results[s][i].raw_email_id =>
                    row.outlook_message_id = EmailAt(s, i).outlook_message_id

\* A batch of two has returned: its first email failed, its second was
\* processed and committed.
C3_Witness ==
    \E s \in Sessions :
        /\ sess[s].pc = "idle"
        /\ sess[s].batch_size = 2
        /\ FailedResult(results[s][1])
        /\ batch[s][1] # batch[s][2]
        /\ results[s][2].success
        /\ \E row \in rawEmails :
              /\ row.id = results[s][2].raw_email_id
              /\ row.id > results[s][1].raw_email_id
              /\ row.processed

\* C4: after a failed call whose RawEmail had been inserted, the email stays
\* recorded with processed = false and the error message (so that a later call
\* with the same transport id runs the pipeline again).
C4_FailureRecorded ==
    \A s \in Sessions :
        (/\ ~InFlight(s)
         /\ results[s] # <<>>
         /\ ~results[s][Len(results[s])].success
         /\ results[s][Len(results[s])].raw_email_id # NoId)
        => \E row \in rawEmails :
              /\ row.id = results[s][Len(results[s])].raw_email_id
              /\ ~row.processed
              /\ row.processing_error = results[s][Len(results[s])].error

\* C5: a call whose new Application violates the uniqueness of (user, company,
\* title) ends as an update of the existing row, with success true, and never
\* as an error.
C5_ConflictBecomesUpdate ==
    \A s \in Sessions : \A i \in Done(s) :
        results[s][i].error = ErrAppKey =>
            /\ results[s][i].success
            /\ results[s][i].application_id # NoId
            /\ ~results[s][i].is_new_application

AppById(id) == CHOOSE a \in applications : a.id = id

NewResults == {p \in Sessions \X (1..MaxCalls) :
                  p[2] \in Done(p[1]) /\ results[p[1]][p[2]].is_new_application}

\* C6: no two Applications share (user, company, title), and no two calls,
\* concurrent or not, both return is_new_application = true for the same
\* (user, company, title).
C6_UniqueApplications ==
    /\ UniqueApplications(applications)
    /\ \A p, q \in NewResults :
          LET a == AppById(results[p[1]][p[2]].application_id)
              b == AppById(results[q[1]][q[2]].application_id)
          IN  p # q => AppKey(a) # AppKey(b)

\* Two overlapping calls for the same new pair have both returned: the one that
\* inserted its RawEmail first waited for the other's commit and failed on the
\* constraint, the other created the application.
C6_Witness ==
    \E s, t \in Sessions : \E i \in Done(s), j \in Done(t) :
        /\ s # t
        /\ results[s][i].is_new_application
        /\ results[t][j].error = ErrAppKey
        /\ results[t][j].raw_email_id < results[s][i].raw_email_id
        /\ sess[s].user_id = sess[t].user_id
        /\ OrElse(EmailAt(s, i).fact.company_name, UnknownCompany)
             = OrElse(EmailAt(t, j).fact.company_name, UnknownCompany)
        /\ OrElse(EmailAt(s, i).fact.job_title, UnknownPosition)
             = OrElse(EmailAt(t, j).fact.job_title, UnknownPosition)

\* C8: a process_email call whose transport id is already recorded for the
\* user writes nothing: the tables and the id counters stay as they are and
\* the call returns at once with a successful result that is neither new nor
\* for review.
C8_AlreadyProcessedNoWrites ==
    [][\A s \in Sessions :
          (/\ sess[s].pc = "next"
           /\ Len(batch'[s]) = Len(batch[s]) + 1
           /\ \E row \in rawEmails :
                 /\ row.user_id = sess[s].user_id
                 /\ row.outlook_message_id
                      = Inbox[batch'[s][Len(batch'[s])]].outlook_message_id)
          => /\ tables' = tables
             /\ nextId' = nextId
             /\ ~InFlight(s)'
             /\ Len(results'[s]) = Len(results[s]) + 1
             /\ LET r == results'[s][Len(results'[s])]
                IN  /\ r.success
                    /\ ~r.is_new_application
                    /\ ~r.needs_manual_review
                    /\ \E row \in rawEmails : row.id = r.raw_email_id]_vars

\* One batch held the same email twice: the second call returned the row of
\* the first.
C8_Witness ==
    \E s \in Sessions : \E i, j \in Done(s) :
        /\ i < j
        /\ batch[s][i] = batch[s][j]
        /\ results[s][i].success
        /\ results[s][j].success
        /\ results[s][j].raw_email_id = results[s][i].raw_email_id

\* The result the call of session s returns in this step.
ReturnedNow(s) == results'[s][Len(results'[s])]

\* The call of session s, in its review branch, commits in this step.
ReviewCommitted(s) ==
    /\ sess[s].pc = "commit" /\ sess[s].mr.should_review
    /\ Len(results'[s]) = Len(results[s]) + 1
    /\ ReturnedNow(s).success

EventsOf(application_id) ==
    {i \in 1..Len(events) : events[i].application_id = application_id}

\* C23: after any sequence of process_email calls, the event_count of every
\* Application equals the number of ApplicationEvents that reference it.
C23_EventCountIsNumberOfEvents ==
    \A a \in applications : a.event_count = Cardinality(EventsOf(a.id))

\* The ApplicationEvent most recently created for the Application.
LatestEvent(application_id) ==
    LET of == EventsOf(application_id)
    IN  events[CHOOSE i \in of : \A j \in of : j <= i]

StatusOfLatestEvent ==
    \A a \in applications :
        EventsOf(a.id) # {} => a.current_status = LatestEvent(a.id).status

\* The call of s commits an update from an email dated before the
\* Application's latest_email_date whose status differs from the current one.
EarlierUpdateCommitted(s) ==
    /\ sess[s].pc = "commit" /\ ~sess[s].mr.should_review /\ ~sess[s].mr.is_new
    /\ Len(results'[s]) = Len(results[s]) + 1 /\ ReturnedNow(s).success
    /\ ExtractionDate(CurrentEmail(s)) < sess[s].app.latest_email_date
    /\ CurrentEmail(s).fact.status # sess[s].app.current_status

\* C27: after any sequence of process_email calls, the current_status of
\* every Application equals the status of the ApplicationEvent most recently
\* created for it, in processing order and not in email-date order: an update
\* from an email dated earlier than latest_email_date still replaces a
\* differing status and sets status_updated_at to that earlier date.
C27_StatusFollowsProcessingOrder ==
    /\ []StatusOfLatestEvent
    /\ [][\A s \in Sessions : EarlierUpdateCommitted(s) =>
            \E a \in applications' :
                /\ a.id = sess[s].app.id
                /\ a.current_status = CurrentEmail(s).fact.status
                /\ a.status_updated_at = ExtractionDate(CurrentEmail(s))
                /\ a.latest_email_date > a.status_updated_at]_vars

\* An Application whose status was replaced by an email older than its latest.
C27_Witness ==
    \E a \in applications :
        /\ Cardinality(EventsOf(a.id)) >= 2
        /\ a.status_updated_at < a.latest_email_date
        /\ a.current_status = LatestEvent(a.id).status
        /\ LatestEvent(a.id).event_date = a.status_updated_at

\* Two emails for which unwrapping recovers no original date, with different
\* transport ids and received timestamps and the same effective sender,
\* subject and first 500 body characters.
SameButForReceipt(e1, e2) ==
    /\ e1.unwrapped.original_date = NoDate /\ e2.unwrapped.original_date = NoDate
    /\ e1.outlook_message_id # e2.outlook_message_id
    /\ e1.received_datetime # e2.received_datetime
    /\ SameContent(e1, e2)

\* The result of the duplicate branch.
DuplicateResult(r) ==
    /\ r.success /\ r.error = "Duplicate email"
    /\ ~r.is_new_application /\ ~r.needs_manual_review

\* The fingerprint has an empty date component and does not tell the two apart.
FingerprintWithoutReceipt ==
    \A i, j \in EmailIds :
        SameButForReceipt(Inbox[i], Inbox[j])
        => /\ FingerprintInputOf(Inbox[i]) = FingerprintInputOf(Inbox[j])
           /\ Fingerprint(Inbox[i]) = Fingerprint(Inbox[j])
           /\ \E k \in 1..Len(FingerprintInputOf(Inbox[i])) - 1 :
                 /\ FingerprintInputOf(Inbox[i])[k] = "|"
                 /\ FingerprintInputOf(Inbox[i])[k + 1] = "|"

\* C28: when unwrapping recovers no original date, the fingerprint is computed
\* with an empty date component and the received timestamp is not used: two
\* emails of one user with different transport ids and received timestamps
\* but equal effective from, subject and first 500 body characters get the
\* same fingerprint, and the second one processed is treated as a duplicate.
C28_ReceiptNotInFingerprint ==
    /\ FingerprintWithoutReceipt
    /\ \A s \in Sessions : \A i, j \in Done(s) :
          (/\ i < j
           /\ results[s][i].success
           /\ \E row \in rawEmails : row.id = results[s][i].raw_email_id /\ row.processed
           /\ SameButForReceipt(EmailAt(s, i), EmailAt(s, j)))
          => DuplicateResult(results[s][j])

\* The second of the two is turned away, as a duplicate or with an error, and
\* nothing is written for it.
SecondNotProcessed ==
    \A s \in Sessions : \A i, j \in Done(s) :
        (/\ i < j
         /\ results[s][i].success
         /\ \E row \in rawEmails : row.id = results[s][i].raw_email_id /\ row.processed
         /\ SameButForReceipt(EmailAt(s, i), EmailAt(s, j)))
        => /\ DuplicateResult(results[s][j]) \/ results[s][j].error = ErrFingerprint
           /\ ~HasWrites(results[s][j].raw_email_id)

\* The owner of the Application an event or a link references.
OwnerOf(application_id) ==
    {a.user_id : a \in {x \in applications : x.id = application_id}}

\* All that the tables hold of one user.
StateOfUser(u) ==
    <<{r \in rawEmails : r.user_id = u},
      {a \in applications : a.user_id = u},
      {<<i, events[i]>> : i \in {k \in 1..Len(events) : u \in OwnerOf(events[k].application_id)}},
      {l \in links : u \in OwnerOf(l.application_id)},
      {v \in reviews : v.user_id = u}>>

\* Every row of the tables belongs to u or was there before the step.
OnlyRowsOf(u) ==
    /\ \A r \in rawEmails' \ rawEmails : r.user_id = u
    /\ \A a \in applications' \ applications : a.user_id = u
    /\ \A v \in reviews' \ reviews : v.user_id = u
    /\ \A i \in 1..Len(events') :
          i > Len(events) => \E a \in applications' :
                                a.id = events'[i].application_id /\ a.user_id = u
    /\ \A l \in links' \ links :
          \E a \in applications' : a.id = l.application_id /\ a.user_id = u

MatchWithinUser ==
    \A s \in Sessions :
        sess[s].mr.application_id # NoId
        => /\ OwnerOf(sess[s].mr.application_id) = {sess[s].user_id}
           /\ sess[s].pc = "commit" /\ ~sess[s].mr.should_review
               => sess[s].app.user_id = sess[s].user_id

CandidatesWithinUser ==
    call.function = "find_candidates"
    => \A c \in call.result :
           /\ c[1].user_id = call.user_id
           /\ OwnerOf(c[1].id) = {call.user_id}

\* C30: for a processor and matcher configured with a user id, every
\* application id returned by match and every Application returned by
\* find_candidates belongs to that user, and process_email creates or modifies
\* only RawEmails, Applications, ApplicationEvents, Links and ReviewItems of
\* that user: the state of every other user is unchanged by the call.
C30_WithinUser ==
    /\ []MatchWithinUser
    /\ []CandidatesWithinUser
    /\ [][\A s \in Sessions : sess'[s] # sess[s] =>
            /\ OnlyRowsOf(sess'[s].user_id)
            /\ \A u \in Users \ {sess'[s].user_id} : StateOfUser(u)' = StateOfUser(u)]_vars

\* Two users hold an Application for the same company and position; the one
\* of user 1 was updated by a second email, and the candidate query of user 2
\* returned the Application of user 2.
C30_Witness ==
    \E a \in applications, b \in applications :
        /\ a.user_id = 1 /\ b.user_id = 2
        /\ Lower(a.company_name) = Lower(b.company_name) /\ a.job_title = b.job_title
        /\ Cardinality(EventsOf(a.id)) = 2
        /\ call.function = "find_candidates" /\ call.user_id = 2
        /\ call.result # {} /\ \A c \in call.result : c[1] = b

\* The rows that hold the transport id or the fingerprint of e, other than the
\* call's own row.
RowsLike(e, own_id) ==
    {row \in rawEmails :
        /\ row.id # own_id
        /\ \/ row.outlook_message_id = e.outlook_message_id
           \/ row.email_fingerprint = Fingerprint(e)}

\* C17: deduplication is scoped to the user: a call whose transport message id
\* or content fingerprint is held only by records of other users is neither
\* classified as a duplicate nor turned into a failed result because of
\* those records.
C17_DedupeScopedToUser ==
    \A s \in Sessions : \A i \in Done(s) :
        (/\ RowsLike(EmailAt(s, i), results[s][i].raw_email_id) # {}
         /\ \A row \in RowsLike(EmailAt(s, i), results[s][i].raw_email_id) :
               row.user_id # sess[s].user_id)
        => results[s][i].error \notin {ErrMessageId, ErrFingerprint, "Duplicate email"}

-----------------------------------------------------------------------------
(* POST /sync/run: the handler and its background task on the event loop *)

MaxRequests == 2
MaxEmails == 2

\* _sync_locks.get(user_id, False)
LockHeld(user_id) == IF user_id \in DOMAIN syncLocks THEN syncLocks[user_id] ELSE FALSE

\* _sync_locks[user_id] = value
SetLock(locks, user_id, value) ==
    [u \in DOMAIN locks \cup {user_id} |-> IF u = user_id THEN value ELSE locks[u]]

SyncStateRow(user_id) ==
    [applications_created |-> 0, emails_fetched |-> 0, emails_processed |-> 0,
     error_message |-> "None", errors_count |-> 0, is_running |-> TRUE,
     success |-> "None", user_id |-> user_id]

\* run_sync_task is a coroutine without an await: from its first statement to
\* its last it keeps the event loop, and no handler runs meanwhile.
Running(k) == tasks[k].state \in {"token", "process"}

LoopFree == \A k \in DOMAIN tasks : ~Running(k)

\* The sync of a user is under way: a row of the user says is_running, or a
\* task of the user is between its first and its last statement.
SyncUnderWay(user_id) ==
    \/ \E i \in DOMAIN syncStates :
          syncStates[i].user_id = user_id /\ syncStates[i].is_running
    \/ \E k \in DOMAIN tasks : tasks[k].user_id = user_id /\ Running(k)

InitSync ==
    /\ syncLocks = <<>>
    /\ syncStates = <<>>
    /\ tasks = <<>>
    /\ requests = <<>>
    /\ applications = {}
    /\ now = 100
    /\ mcall = NoCall /\ call = Uncalled
    /\ rawEmails = {}
    /\ events = <<>>
    /\ links = {}
    /\ reviews = {}
    /\ nextId = [app |-> 1, raw |-> 1]
    /\ sess = [s \in Sessions |-> IdleSess]
    /\ batch = [s \in Sessions |-> <<>>]
    /\ results = [s \in Sessions |-> <<>>]
    /\ ncalls = 0

otherVars == <<applications, now, mcall, call, pipelineVars>>

\* A client sends POST /sync/run for user_id; the server takes it up when the
\* loop is free. during: a sync of the user is under way when it arrives.
Arrive(user_id) ==
    /\ Len(requests) < MaxRequests
    /\ requests' = Append(requests, [during |-> SyncUnderWay(user_id),
                                     status |-> "waiting",
                                     user_id |-> user_id])
    /\ UNCHANGED <<syncLocks, syncStates, tasks, otherVars>>

\* The handler run_sync, up to its return; authenticated is what
\* is_user_authenticated answers.
RunSync(q, authenticated) ==
    /\ q \in DOMAIN requests
    /\ requests[q].status = "waiting"
    /\ LoopFree
    /\ LET user_id == requests[q].user_id
       IN  IF LockHeld(user_id)
           THEN /\ requests' = [requests EXCEPT ![q].status = "409"]
                /\ UNCHANGED <<syncStates, tasks>>
           ELSE IF ~authenticated
           THEN /\ requests' = [requests EXCEPT ![q].status = "401"]
                /\ UNCHANGED <<syncStates, tasks>>
           ELSE /\ syncStates' = Append(syncStates, SyncStateRow(user_id))
                /\ tasks' = Append(tasks,
                                   [created |-> 0, errors |-> 0, fetched |-> 0,
                                    left |-> 0, processed |-> 0, request |-> q,
                                    state |-> "scheduled",
                                    sync_state_id |-> Len(syncStates) + 1,
                                    user_id |-> user_id])
                /\ requests' = [requests EXCEPT ![q].status = "200"]
    /\ UNCHANGED <<syncLocks, otherVars>>

\* The response is sent and the background task begins: _sync_locks[user_id] = True
TaskStart(k) ==
    /\ k \in DOMAIN tasks
    /\ tasks[k].state = "scheduled"
    /\ LoopFree
    /\ syncLocks' = SetLock(syncLocks, tasks[k].user_id, TRUE)
    /\ tasks' = [tasks EXCEPT ![k].state = "token"]
    /\ UNCHANGED <<syncStates, requests, otherVars>>

\* A failing task that records its error and ends without reaching the
\* statement that resets _sync_locks[user_id].
TaskFailsHoldingLock(k, message) ==
    /\ k \in DOMAIN tasks
    /\ \/ tasks[k].state = "token"
       \/ tasks[k].state = "process" /\ message = "exception"
    /\ syncStates' = [syncStates EXCEPT ![tasks[k].sync_state_id] =
                         [@ EXCEPT !.error_message = message, !.success = "False",
                                   !.is_running = FALSE]]
    /\ tasks' = [tasks EXCEPT ![k].state = "ended"]
    /\ UNCHANGED <<syncLocks, requests, otherVars>>

\* The task ends with an error recorded: no accounts, no token, or an exception
\* caught by the outer handler; the lock is released.
TaskFails(k, message) ==
    /\ k \in DOMAIN tasks
    /\ \/ tasks[k].state = "token"
       \/ tasks[k].state = "process" /\ message = "exception"
    /\ syncStates' = [syncStates EXCEPT ![tasks[k].sync_state_id] =
                         [@ EXCEPT !.error_message = message, !.success = "False",
                                   !.is_running = FALSE]]
    /\ syncLocks' = SetLock(syncLocks, tasks[k].user_id, FALSE)
    /\ tasks' = [tasks EXCEPT ![k].state = "ended"]
    /\ UNCHANGED <<requests, otherVars>>

\* The token is acquired and n emails are fetched from the mailbox.
TaskFetch(k, n) ==
    /\ k \in DOMAIN tasks
    /\ tasks[k].state = "token"
    /\ tasks' = [tasks EXCEPT ![k].state = "process", ![k].fetched = n, ![k].left = n]
    /\ UNCHANGED <<syncLocks, syncStates, requests, otherVars>>

\* One turn of the processing loop; outcome is what process_email returned
\* ("new", "known", "failed"), or "raised" when the turn raised before or in it.
TaskProcess(k, outcome) ==
    /\ k \in DOMAIN tasks
    /\ tasks[k].state = "process"
    /\ tasks[k].left > 0
    /\ tasks' = [tasks EXCEPT
                    ![k].left = @ - 1,
                    ![k].processed = IF outcome \in {"new", "known"} THEN @ + 1 ELSE @,
                    ![k].created = IF outcome = "new" THEN @ + 1 ELSE @,
                    ![k].errors = IF outcome = "raised" THEN @ + 1 ELSE @]
    /\ UNCHANGED <<syncLocks, syncStates, requests, otherVars>>

\* The loop is over: the counters are written to the SyncState and committed,
\* and the lock is released.
TaskFinish(k) ==
    /\ k \in DOMAIN tasks
    /\ tasks[k].state = "process"
    /\ tasks[k].left = 0
    /\ syncStates' = [syncStates EXCEPT ![tasks[k].sync_state_id] =
                         [@ EXCEPT !.emails_fetched = tasks[k].fetched,
                                   !.emails_processed = tasks[k].processed,
                                   !.applications_created = tasks[k].created,
                                   !.errors_count = tasks[k].errors,
                                   !.success = "True", !.is_running = FALSE]]
    /\ syncLocks' = SetLock(syncLocks, tasks[k].user_id, FALSE)
    /\ tasks' = [tasks EXCEPT ![k].state = "ended"]
    /\ UNCHANGED <<requests, otherVars>>

NextSync ==
    \/ \E u \in Users : Arrive(u)
    \/ \E q \in 1..MaxRequests, authenticated \in BOOLEAN : RunSync(q, authenticated)
    \/ \E k \in 1..MaxRequests : TaskStart(k)
    \/ \E k \in 1..MaxRequests,
          message \in {"No accounts found", "Failed to acquire token", "exception"} :
             TaskFails(k, message)
    \/ \E k \in 1..MaxRequests, n \in 0..MaxEmails : TaskFetch(k, n)
    \/ \E k \in 1..MaxRequests, outcome \in {"new", "known", "failed", "raised"} :
          TaskProcess(k, outcome)
    \/ \E k \in 1..MaxRequests : TaskFinish(k)

SpecSync == InitSync /\ [][NextSync]_vars

RunningTasks(user_id) ==
    {k \in DOMAIN tasks : tasks[k].user_id = user_id /\ Running(k)}

RunningRows(user_id) ==
    {i \in DOMAIN syncStates : syncStates[i].user_id = user_id /\ syncStates[i].is_running}

\* C7: however the POST /sync/run requests of a user interleave, at most one
\* sync of the user is between its start and its end (one running task, one
\* SyncState with is_running), and a request that arrives while a sync of the
\* user is under way is answered 409 and starts no task.
C7_OneSyncPerUser ==
    /\ \A u \in Users : Cardinality(RunningTasks(u)) <= 1
    /\ \A u \in Users : Cardinality(RunningRows(u)) <= 1
    /\ \A q \in DOMAIN requests :
          requests[q].during /\ requests[q].status # "waiting" =>
              /\ requests[q].status = "409"
              /\ \A k \in DOMAIN tasks : tasks[k].request # q

\* The SyncStates of the runs that went through the processing loop to its end.
Completed == {i \in DOMAIN syncStates : syncStates[i].success = "True"}

\* C24: when a sync run completes, every fetched email has been counted
\* exactly once, as processed or as an error: emails_processed + errors_count
\* = emails_fetched, so that an email whose ProcessingResult has success =
\* false is counted in errors_count.
C24_EveryEmailCounted ==
    \A i \in Completed :
        syncStates[i].emails_processed + syncStates[i].errors_count
            = syncStates[i].emails_fetched

\* A task that has begun goes on to its next statement: run_sync_task keeps
\* the event loop until it returns, and every call it makes returns or raises.
TaskStep ==
    \E k \in 1..MaxRequests :
        \/ \E message \in {"No accounts found", "Failed to acquire token", "exception"} :
              TaskFails(k, message)
        \/ \E n \in 0..MaxEmails : TaskFetch(k, n)
        \/ \E outcome \in {"new", "known", "failed", "raised"} : TaskProcess(k, outcome)
        \/ TaskFinish(k)

FairSpecSync == SpecSync /\ WF_vars(TaskStep)

Ended(k) == k \in DOMAIN tasks /\ tasks[k].state = "ended"

\* C25: every background sync task that starts for a user eventually ends
\* with that user's sync flag cleared, on every path (no account, no token,
\* an exception in the task, normal completion), so that whenever the loop is
\* free to take a /sync/run request of the user no flag is set and the
\* request is not rejected as already in progress.
C25_TaskEndsWithFlagCleared ==
    /\ \A k \in 1..MaxRequests :
          (k \in DOMAIN tasks /\ Running(k))
              ~> (Ended(k) /\ ~LockHeld(tasks[k].user_id))
    /\ [](LoopFree => \A u \in Users : ~LockHeld(u))
    /\ [](\A q \in DOMAIN requests : requests[q].status # "409")

\* A task of the user ended in failure, the user's next request was accepted
\* and its task ran to normal completion.
C25_Witness ==
    \E u \in Users :
        /\ Ended(1) /\ Ended(2) /\ tasks[1].user_id = u /\ tasks[2].user_id = u
        /\ syncStates[tasks[1].sync_state_id].success = "False"
        /\ syncStates[tasks[2].sync_state_id].success = "True"
        /\ requests[tasks[2].request].status = "200"
        /\ ~LockHeld(u)

-----------------------------------------------------------------------------
(* unwrapper.py: ForwardedEmailUnwrapper *)

\* A body is the sequence of its characters; NoName is an absent (None) or
\* empty body, which "if body_text:" does not tell apart.

Repeat(c, n) == [i \in 1..n |-> c]

Least(S) == CHOOSE i \in S : \A j \in S : i <= j
Greatest(S) == CHOOSE i \in S : \A j \in S : i >= j

\* Where needle starts in hay, case-insensitively (re.IGNORECASE).
Occurrences(hay, needle) ==
    LET h == Lower(hay)
        n == Lower(needle)
    IN  {i \in 1..(Len(h) - Len(n) + 1) : SubSeq(h, i, i + Len(n) - 1) = n}

\* re.search of a literal pattern with re.IGNORECASE: the index of the first
\* character of the leftmost match, 0 when there is none.
LeastOrZero(S) == IF S = {} THEN 0 ELSE Least(S)

Find(hay, needle) == LeastOrZero(Occurrences(hay, needle))

\* The same without re.IGNORECASE (re.split in _extract_clean_body).
FindCased(hay, needle) ==
    LET at == {i \in 1..(Len(hay) - Len(needle) + 1) :
                  SubSeq(hay, i, i + Len(needle) - 1) = needle}
    IN  IF at = {} THEN 0 ELSE Least(at)

SameLine(text, i, j) == \A k \in i..j : text[k] # "\n"

\* text[i:].startswith(word)
StartsAt(text, i, word) ==
    /\ i + Len(word) - 1 <= Len(text)
    /\ SubSeq(text, i, i + Len(word) - 1) = word

HdrFrom == <<"F", "r", "o", "m", ":">>
HdrTo == <<"T", "o", ":">>
HdrSubject == <<"S", "u", "b", "j", "e", "c", "t", ":">>
HdrDate == <<"D", "a", "t", "e", ":">>
HdrSent == <<"S", "e", "n", "t", ":">>

\* The literal markers of GMAIL_FORWARD_MARKERS and OUTLOOK_FORWARD_MARKERS.
GmailMarker == Repeat("-", 10) \o <<" ", "F", "o", "r", "w", "a", "r", "d", "e", "d", " ", "m", "e", "s", "s", "a", "g", "e", " ">> \o Repeat("-", 9)
AppleMarker ==
    <<"B", "e", "g", "i", "n", " ", "f", "o", "r", "w", "a", "r", "d", "e", "d", " ",
      "m", "e", "s", "s", "a", "g", "e", ":">>
PlainMarker == <<"F", "o", "r", "w", "a", "r", "d", "e", "d", " ", "m", "e", "s", "s", "a", "g", "e">>
OutlookRule == Repeat("_", 32)

\* re.search(r'From:.*Sent:.*To:.*Subject:', text, re.IGNORECASE): the four
\* headers in this order on one line; <<start, end>> of the leftmost match with
\* its greedy end, <<0, 0>> when there is none.
OutlookHeaderLine(text) ==
    LET chains == {c \in Occurrences(text, HdrFrom) \X Occurrences(text, HdrSent)
                         \X Occurrences(text, HdrTo) \X Occurrences(text, HdrSubject) :
                      /\ c[1] + Len(HdrFrom) <= c[2]
                      /\ c[2] + Len(HdrSent) <= c[3]
                      /\ c[3] + Len(HdrTo) <= c[4]
                      /\ SameLine(text, c[1], c[4])}
        start == Least({c[1] : c \in chains})
    IN  IF chains = {} THEN <<0, 0>>
        ELSE <<start, Greatest({c[4] : c \in {d \in chains : d[1] = start}})
                          + Len(HdrSubject) - 1>>

\* <<m.start(), m.end()>> of a match of len characters found at start.
Span(start, len) == IF start = 0 THEN <<0, 0>> ELSE <<start, start + len - 1>>

LiteralMatch(text, marker) == Span(Find(text, marker), Len(marker))

\* "for pattern in self.GMAIL_FORWARD_MARKERS + self.OUTLOOK_FORWARD_MARKERS":
\* the match of the first pattern of the list that is found, <<0, 0>> for none.
FirstMatch(tries) ==
    LET hits == {p \in 1..Len(tries) : tries[p] # <<0, 0>>}
    IN  IF hits = {} THEN <<0, 0>> ELSE tries[Least(hits)]

ForwardMatch(text) ==
    FirstMatch(<< LiteralMatch(text, GmailMarker), LiteralMatch(text, AppleMarker),
                  LiteralMatch(text, PlainMarker), OutlookHeaderLine(text),
                  LiteralMatch(text, OutlookRule) >>)

\* HEADER_PATTERNS: the headers whose first pattern is r'X:\s*(.+?)(?:\n|<br|$)',
\* in the order tried.  The further patterns of 'from' and 'to' match only where
\* the first one does.
HEADER_PATTERNS(header_type) ==
    CASE header_type = "from" -> <<HdrFrom>>
      [] header_type = "to" -> <<HdrTo>>
      [] header_type = "subject" -> <<HdrSubject>>
      [] header_type = "date" -> <<HdrDate, HdrSent>>

\* re.sub(r'<[^>]+>', '', value)
RECURSIVE RemoveTags(_)
RemoveTags(s) ==
    LET opens == {i \in 1..Len(s) :
                     /\ s[i] = "<"
                     /\ i + 1 <= Len(s) /\ s[i + 1] # ">"
                     /\ \E j \in (i + 2)..Len(s) : s[j] = ">"}
        i == Least(opens)
        j == Least({k \in (i + 2)..Len(s) : s[k] = ">"})
    IN  IF opens = {} THEN s
        ELSE SubSeq(s, 1, i - 1) \o RemoveTags(SubSeq(s, j + 1, Len(s)))

\* group(1) of r'X:\s*(.+?)(?:\n|<br|$)' with re.MULTILINE: after the header and
\* any white space, the characters up to the end of the line or to "<br".
UpToLineEnd(rest) ==
    LET stops == {q \in 2..(Len(rest) + 1) :
                     \/ q = Len(rest) + 1
                     \/ rest[q] = "\n"
                     \/ StartsAt(rest, q, <<"<", "b", "r">>)}
    IN  IF rest = <<>> THEN <<>> ELSE SubSeq(rest, 1, Least(stops) - 1)

HeaderValue(content, header) ==
    UpToLineEnd(LStrip(SubSeq(content, Find(content, header) + Len(header), Len(content))))

\* _extract_header: the value of the first pattern that matches, stripped and
\* without tags; None (NoName) when no pattern matches or nothing is left.
FirstHeader(content, patterns) ==
    LET hits == {p \in 1..Len(patterns) :
                    /\ Find(content, patterns[p]) # 0
                    /\ HeaderValue(content, patterns[p]) # <<>>}
    IN  IF hits = {} THEN NoName
        ELSE RemoveTags(Strip(HeaderValue(content, patterns[Least(hits)])))

_extract_header(content, header_type) == FirstHeader(content, HEADER_PATTERNS(header_type))

IsoDateText ==
    <<"2", "0", "2", "4", "-", "0", "1", "-", "1", "5", " ", "1", "0", ":", "3", "0",
      ":", "0", "0">>

\* _parse_date: the date written '%Y-%m-%d %H:%M:%S' is day 95 of the model's
\* calendar; a text in none of the formats gives None.
_parse_date(date_str) == IF Strip(date_str) = IsoDateText THEN 95 ELSE NoDate

\* SIGNATURE_PATTERNS, each optional comma or blank written out.
SIGNATURE_PATTERNS ==
    << {<<"\n", "-", "-", "\n">>, <<"\n", "-", "-", " ", "\n">>},
       {<<"\n", "B", "e", "s", "t", " ", "r", "e", "g", "a", "r", "d", "s", "\n">>, <<"\n", "B", "e", "s", "t", " ", "r", "e", "g", "a", "r", "d", "s", ",", "\n">>},
       {<<"\n", "T", "h", "a", "n", "k", "s", "\n">>, <<"\n", "T", "h", "a", "n", "k", "s", ",", "\n">>},
       {<<"\n", "R", "e", "g", "a", "r", "d", "s", "\n">>, <<"\n", "R", "e", "g", "a", "r", "d", "s", ",", "\n">>},
       {<<"\n", "S", "e", "n", "t", " ", "f", "r", "o", "m", " ", "m", "y", " ", "i", "P", "h", "o", "n", "e">>},
       {<<"\n", "S", "e", "n", "t", " ", "f", "r", "o", "m", " ", "m", "y", " ", "A", "n", "d", "r", "o", "i", "d">>},
       {<<"\n", "G", "e", "t", " ", "O", "u", "t", "l", "o", "o", "k", " ", "f", "o", "r", " ", "i", "O", "S">>} >>

\* QUOTE_PATTERNS: r'>\s*>' with no or one blank between the marks.  r'On .+? wrote:'
\* is found by OnWrote.
QUOTE_PATTERNS == << {<<">", ">">>, <<">", " ", ">">>} >>

\* re.split(pattern, body, maxsplit=1)[0] for the alternatives of one pattern:
\* the text before the leftmost match, the whole text when there is none.
BeforeFirst(body, alternatives) ==
    LET at == {FindCased(body, a) : a \in alternatives} \ {0}
    IN  IF at = {} THEN body ELSE SubSeq(body, 1, Least(at) - 1)

RECURSIVE SplitAll(_, _)
SplitAll(body, patterns) ==
    IF patterns = <<>> THEN body
    ELSE SplitAll(BeforeFirst(body, Head(patterns)), Tail(patterns))

\* re.split(r'On .+? wrote:', body, maxsplit=1)[0]
OnWrote(body) ==
    LET on == <<"O", "n", " ">>
        wrote == <<" ", "w", "r", "o", "t", "e", ":">>
        at == {i \in 1..Len(body) :
                  /\ StartsAt(body, i, on)
                  /\ \E j \in (i + 4)..Len(body) :
                         /\ StartsAt(body, j, wrote)
                         /\ SameLine(body, i, j)}
    IN  IF at = {} THEN body ELSE SubSeq(body, 1, Least(at) - 1)

\* re.sub(r'\n{3,}', '\n\n', body)
RECURSIVE CollapseNewlines(_)
CollapseNewlines(body) ==
    LET triple == FindCased(body, <<"\n", "\n", "\n">>)
    IN  IF triple = 0 THEN body
        ELSE CollapseNewlines(SubSeq(body, 1, triple) \o SubSeq(body, triple + 2, Len(body)))

\* The end of the first match of f'{header}.*?\n': the newline that follows the
\* first occurrence of the header; 0 when the header or the newline is missing.
HeaderLineEnd(content, header) ==
    LET start == Find(content, header)
        ends == {q \in (start + Len(header))..Len(content) : content[q] = "\n"}
    IN  IF start = 0 \/ ends = {} THEN 0 ELSE Least(ends)

_extract_clean_body(content) ==
    LET header_end == Greatest({HeaderLineEnd(content, h) :
                                   h \in {HdrFrom, HdrTo, HdrSubject, HdrDate, HdrSent}})
        body == Strip(SubSeq(content, header_end + 1, Len(content)))
        unsigned == SplitAll(body, SIGNATURE_PATTERNS)
        unquoted == SplitAll(OnWrote(unsigned), QUOTE_PATTERNS)
    IN  Strip(CollapseNewlines(unquoted))

\* The weights of _calculate_confidence, in hundredths.
FromWeight == 35
SubjectWeight == 25
DateWeight == 20
BodyWeight == 20
MinSubjectLen == 3
MinBodyLen == 50
HtmlAccept == 60

_calculate_confidence(original_from, original_subject, original_date, clean_body) ==
    LET score == (IF original_from # NoName /\ Contains(original_from, <<"@">>)
                  THEN FromWeight ELSE 0)
                 + (IF original_subject # NoName /\ Len(original_subject) > MinSubjectLen
                    THEN SubjectWeight ELSE 0)
                 + (IF original_date # NoDate THEN DateWeight ELSE 0)
                 + (IF clean_body # NoName /\ Len(clean_body) > MinBodyLen
                    THEN BodyWeight ELSE 0)
    IN  IF score < 100 THEN score ELSE 100

UnwrappedEmail(from, to, subject, date, text, html, confidence, method) ==
    [clean_body_html |-> html, clean_body_text |-> text, confidence |-> confidence,
     method_used |-> method, original_date |-> date, original_from |-> from,
     original_subject |-> subject, original_to |-> to]

\* "original_date = self._parse_date(original_date_str) if original_date_str else None"
OriginalDate(original_date_str) ==
    IF original_date_str # NoName THEN _parse_date(original_date_str) ELSE NoDate

\* The UnwrappedEmail of a forward, with its confidence.
Forwarded(original_from, original_to, original_subject, original_date, clean_body, method) ==
    UnwrappedEmail(original_from, original_to, original_subject, original_date,
                   clean_body, NoName,
                   _calculate_confidence(original_from, original_subject,
                                         original_date, clean_body),
                   method)

\* The headers and the body found in the content after the marker.
ExtractForwarded(forwarded_content, method) ==
    Forwarded(_extract_header(forwarded_content, "from"),
              _extract_header(forwarded_content, "to"),
              _extract_header(forwarded_content, "subject"),
              OriginalDate(_extract_header(forwarded_content, "date")),
              _extract_clean_body(forwarded_content), method)

\* "if not forward_match: return ...; forwarded_content = text[forward_match.end():]"
AfterMarker(text, forward_match, method, none) ==
    IF forward_match = <<0, 0>> THEN none
    ELSE ExtractForwarded(SubSeq(text, forward_match[2] + 1, Len(text)), method)

\* The part of _unwrap_text and _unwrap_html after the text is known.
UnwrapForward(text, method, none) == AfterMarker(text, ForwardMatch(text), method, none)

_unwrap_text(text) ==
    UnwrapForward(text, "text_forward_extraction",
                  UnwrappedEmail(NoName, NoName, NoName, NoDate, text, NoName, 0,
                                 "no_text_forward_detected"))

\* BeautifulSoup(html, 'html.parser').get_text('\n') of a document whose text
\* is one node: the document without its tags.
GetText(html) == RemoveTags(html)

_unwrap_html(html) ==
    UnwrapForward(GetText(html), "html_forward_extraction",
                  UnwrappedEmail(NoName, NoName, NoName, NoDate, NoName, html, 0,
                                 "no_html_forward_detected"))

\* unwrap with a text result that is kept whatever its confidence.
KeepAnyText(html_result, text_result, body_text, body_html) ==
    IF body_html # NoName /\ html_result.confidence > HtmlAccept
    THEN html_result
    ELSE IF body_text # NoName /\ text_result.confidence >= 0
    THEN text_result
    ELSE UnwrappedEmail(NoName, NoName, NoName, NoDate, body_text, body_html, 100,
                        "no_forwarding_detected")

UnwrapTextAlways(body_text, body_html) ==
    KeepAnyText(_unwrap_html(body_html), _unwrap_text(body_text), body_text, body_html)

\* "if html_result.confidence > 0.6: return html_result", then
\* "if text_result.confidence > 0.0: return text_result", then the pass-through.
KeepConfident(html_result, text_result, body_text, body_html) ==
    IF body_html # NoName /\ html_result.confidence > HtmlAccept
    THEN html_result
    ELSE IF body_text # NoName /\ text_result.confidence > 0
    THEN text_result
    ELSE UnwrappedEmail(NoName, NoName, NoName, NoDate, body_text, body_html, 100,
                        "no_forwarding_detected")

unwrap(body_text, body_html) ==
    KeepConfident(_unwrap_html(body_html), _unwrap_text(body_text), body_text, body_html)

\* The bodies unwrap is applied to: an optional banner, then optional From,
\* Date and Subject lines as a forwarding client writes them, then a text.

Banners == {<<>>, PlainMarker \o <<"\n">>,
            <<"h", "i", "\n">> \o GmailMarker \o <<"\n">>}
FromLines == {<<>>, <<"F", "r", "o", "m", ":", " ", "j", "@", "a", "\n">>,
              <<"F", "r", "o", "m", ":", " ", "J", " ", "<", "j", "@", "a", ">", "\n">>,
              <<"F", "r", "o", "m", ":", " ", "J", "\n">>}
DateLines == {<<>>, HdrDate \o <<" ">> \o IsoDateText \o <<"\n">>,
              <<"D", "a", "t", "e", ":", " ", "s", "o", "o", "n", "\n">>}
SubjectLines == {<<>>, <<"S", "u", "b", "j", "e", "c", "t", ":", " ", "J", "o", "b", "s", "\n">>,
                 <<"S", "u", "b", "j", "e", "c", "t", ":", " ", "J", "o", "b", "\n">>}
Texts == {<<>>, Repeat("x", MinBodyLen), Repeat("x", MinBodyLen + 1)}

TextBodies ==
    {b \o f \o d \o s \o t :
        b \in Banners, f \in FromLines, d \in DateLines, s \in SubjectLines, t \in Texts}

Html(text) == <<"<", "p", ">">> \o text \o <<"<", "/", "p", ">">>

\* The HTML parts: absent, or a paragraph holding one of fewer texts.
HtmlBodies ==
    {NoName} \cup
    {Html(b \o f \o d \o s \o t) :
        b \in {<<>>, PlainMarker \o <<"\n">>},
        f \in {<<>>, <<"F", "r", "o", "m", ":", " ", "j", "@", "a", "\n">>},
        d \in {<<>>, HdrDate \o <<" ">> \o IsoDateText \o <<"\n">>},
        s \in {<<>>, <<"S", "u", "b", "j", "e", "c", "t", ":", " ", "J", "o", "b", "s", "\n">>},
        t \in {<<>>, Repeat("x", MinBodyLen + 1)}}

NoUnwrapped == UnwrappedEmail(NoName, NoName, NoName, NoDate, NoName, NoName, 0, "none")

InitUnwrap ==
    /\ call \in {[body_html |-> h, body_text |-> t, function |-> "unwrap",
                  pc |-> "called", result |-> NoUnwrapped] :
                    t \in TextBodies, h \in HtmlBodies}
               \cup {[body_html |-> NoName, body_text |-> t, function |-> "_unwrap_text",
                       pc |-> "called", result |-> NoUnwrapped] :
                         t \in TextBodies \ {NoName}}
    /\ applications = {} /\ now = 100 /\ mcall = NoCall
    /\ rawEmails = {} /\ events = <<>> /\ links = {} /\ reviews = {}
    /\ nextId = [app |-> 1, raw |-> 1]
    /\ sess = <<>> /\ batch = <<>> /\ results = <<>> /\ ncalls = 0
    /\ syncLocks = <<>> /\ syncStates = <<>> /\ tasks = <<>> /\ requests = <<>>

\* unwrapper.unwrap(body_text, body_html), as process_email calls it.
Unwrap ==
    /\ call.function = "unwrap" /\ call.pc = "called"
    /\ call' = [call EXCEPT !.pc = "returned",
                            !.result = unwrap(call.body_text, call.body_html)]
    /\ UNCHANGED <<applications, now, mcall, pipelineVars, syncVars>>

\* self.unwrapper._unwrap_text(text), as the unit tests call it.
UnwrapText ==
    /\ call.function = "_unwrap_text" /\ call.pc = "called"
    /\ call' = [call EXCEPT !.pc = "returned", !.result = _unwrap_text(call.body_text)]
    /\ UNCHANGED <<applications, now, mcall, pipelineVars, syncVars>>

NextUnwrap == Unwrap \/ UnwrapText

SpecUnwrap == InitUnwrap /\ [][NextUnwrap]_vars

UnwrapReturned == call.function = "unwrap" /\ call.pc = "returned"

\* A forward marker is recognized in the text part, or in the text of the HTML part.
MarkerInText == call.body_text # NoName /\ ForwardMatch(call.body_text) # <<0, 0>>
MarkerInHtml == call.body_html # NoName /\ ForwardMatch(GetText(call.body_html)) # <<0, 0>>

\* C12: for every input of unwrap (text only, HTML only, both or neither) in
\* which no forward marker is recognized, the result has original from, to,
\* subject and date unset, confidence exactly 1.0, and the text and HTML
\* bodies passed through unchanged.
C12_NotForwardedPassThrough ==
    (UnwrapReturned /\ ~MarkerInText /\ ~MarkerInHtml)
    => /\ call.result.original_from = NoName
       /\ call.result.original_to = NoName
       /\ call.result.original_subject = NoName
       /\ call.result.original_date = NoDate
       /\ call.result.confidence = 100
       /\ call.result.clean_body_text = call.body_text
       /\ call.result.clean_body_html = call.body_html

\* Both parts present, the text with From, Date and Subject lines and a long
\* text but no banner.
C12_Witness ==
    /\ UnwrapReturned /\ ~MarkerInText /\ ~MarkerInHtml
    /\ call.body_html # NoName
    /\ Find(call.body_text, HdrFrom) # 0 /\ Find(call.body_text, HdrSubject) # 0
    /\ Find(call.body_text, HdrDate) # 0 /\ Len(call.body_text) > 2 * MinBodyLen

UnwrapTextReturned == call.function = "_unwrap_text" /\ call.pc = "returned"

\* C26: _unwrap_text applied to a body that contains no forward marker returns
\* original_from and original_subject unset, clean_body_text equal to the
\* input text, confidence 1.0 and method "no_text_forward_detected".
C26_NoTextForwardDetected ==
    (UnwrapTextReturned /\ ForwardMatch(call.body_text) = <<0, 0>>)
    => /\ call.result.original_from = NoName
       /\ call.result.original_subject = NoName
       /\ call.result.clean_body_text = call.body_text
       /\ call.result.confidence = 100
       /\ call.result.method_used = "no_text_forward_detected"

\* The same result but for the confidence, which is 0.0.
NoTextForwardDetectedAtZero ==
    (UnwrapTextReturned /\ ForwardMatch(call.body_text) = <<0, 0>>)
    => /\ call.result.original_from = NoName
       /\ call.result.original_subject = NoName
       /\ call.result.clean_body_text = call.body_text
       /\ call.result.confidence = 0
       /\ call.result.method_used = "no_text_forward_detected"

\* The signals _calculate_confidence finds in the forwarded content of a text
\* in which a marker is recognized.
Signals(text) ==
    LET content == SubSeq(text, ForwardMatch(text)[2] + 1, Len(text))
        date_str == _extract_header(content, "date")
    IN  {g \in {"from", "subject", "date", "body"} :
            \/ g = "from" /\ Contains(_extract_header(content, "from"), <<"@">>)
            \/ g = "subject" /\ Len(_extract_header(content, "subject")) > 3
            \/ g = "date" /\ date_str # NoName /\ _parse_date(date_str) # NoDate
            \/ g = "body" /\ Len(_extract_clean_body(content)) > 50}

SignalWeight(g) ==
    CASE g = "from" -> 35 [] g = "subject" -> 25 [] g = "date" -> 20 [] g = "body" -> 20

RECURSIVE SignalSum(_)
SignalSum(S) ==
    IF S = {} THEN 0
    ELSE LET g == CHOOSE x \in S : TRUE
             sum == SignalWeight(g) + SignalSum(S \ {g})
         IN  IF sum < 100 THEN sum ELSE 100

AllSignals == {"from", "subject", "date", "body"}

\* The one body of a call with a single part that holds a forward marker.
MarkedBody ==
    IF call.body_html = NoName THEN call.body_text ELSE GetText(call.body_html)

OnePartWithMarker ==
    /\ UnwrapReturned
    /\ \/ call.body_html = NoName /\ MarkerInText
       \/ call.body_text = NoName /\ MarkerInHtml

\* C13: for a body in which a forward marker is recognized, the confidence of
\* the result of unwrap is the sum of the weights of the satisfied signals
\* (from with '@' 0.35, subject longer than 3 characters 0.25, date parsed
\* 0.20, cleaned body longer than 50 characters 0.20), capped at 1.0; a text
\* with a marker that satisfies a superset of these signals gets a confidence
\* that is not lower; and with some but not all signals the confidence lies
\* strictly between that of the not-forwarded result (1.0) and that of the
\* fully recovered result (the sum of all weights).
C13_ConfidenceIsSignalSum ==
    OnePartWithMarker =>
        /\ call.result.confidence = SignalSum(Signals(MarkedBody))
        /\ \A t \in TextBodies :
               (ForwardMatch(t) # <<0, 0>> /\ Signals(MarkedBody) \subseteq Signals(t))
               => unwrap(t, NoName).confidence >= call.result.confidence
        /\ (Signals(MarkedBody) # {} /\ Signals(MarkedBody) # AllSignals)
           => \/ /\ call.result.confidence > 100
                 /\ call.result.confidence < SignalSum(AllSignals)
              \/ /\ call.result.confidence < 100
                 /\ call.result.confidence > SignalSum(AllSignals)

-----------------------------------------------------------------------------
(* extractor.py: JobEmailExtractor.extract and its LLM fallback *)

ExtractedData(company, company_confidence, title, title_confidence, email_type, status, method, overall) ==
    [company_confidence |-> company_confidence, company_name |-> company,
     email_type |-> email_type, extraction_method |-> method, job_title |-> title,
     job_title_confidence |-> title_confidence, overall_confidence |-> overall,
     status |-> status]

\* _extract_status: the status of an email type.
_extract_status(email_type) ==
    CASE email_type = "APPLICATION_CONFIRMATION" -> "APPLIED_RECEIVED"
      [] email_type = "REJECTION" -> "REJECTED"
      [] OTHER -> "OTHER_UPDATE"

\* _calculate_overall_confidence: the mean of the scores of what was found.
_calculate_overall_confidence(result) ==
    LET scores == (IF result.company_name # NoName THEN <<result.company_confidence>> ELSE <<>>)
                  \o (IF result.job_title # NoName THEN <<result.job_title_confidence>>
                      ELSE <<>>)
                  \o (IF result.email_type # "UNKNOWN" THEN <<Pct(70)>> ELSE <<>>)
                  \o (IF result.status # "OTHER_UPDATE" THEN <<Pct(60)>> ELSE <<>>)
        sum[i \in 0..Len(scores)] == IF i = 0 THEN 0 ELSE sum[i - 1] + scores[i]
    IN  IF scores = <<>> THEN 0 ELSE sum[Len(scores)] \div Len(scores)

\* What _extract_rule_based can return: company and title found by a strategy of
\* some confidence or not found, and an email type with its status.
RuleBasedResults ==
    {LET r == ExtractedData(c[1], c[2], t[1], t[2], e, _extract_status(e), "rule_based", 0)
     IN  [r EXCEPT !.overall_confidence = _calculate_overall_confidence(r)] :
        c \in {<<NoName, 0>>, <<<<"a", "b">>, Pct(90)>>, <<<<"a", "b">>, Pct(85)>>,
               <<<<"a", "b">>, Pct(50)>>},
        t \in {<<NoName, 0>>, <<<<"t">>, Pct(85)>>, <<<<"t">>, Pct(75)>>},
        e \in {"UNKNOWN", "GENERAL_UPDATE", "APPLICATION_CONFIRMATION"}}

\* What the LLM client does when asked: the request fails, the answer holds no
\* JSON object, the object does not parse, or it parses to the fields read by
\* _extract_llm_fallback ("null" is JSON null).
LlmAnswer(kind, company, is_job_related, title, status) ==
    [company_name |-> company, during |-> kind, is_job_related |-> is_job_related,
     job_title |-> title, status |-> status]

LlmAnswers ==
    {LlmAnswer(k, NoName, FALSE, NoName, "null") : k \in {"api_error", "no_json", "invalid_json"}}
    \cup {LlmAnswer("json", c, j, t, st) :
              c \in {NoName, <<"a", "b">>}, j \in BOOLEAN, t \in {NoName, <<"t">>},
              st \in {"applied", "rejected", "null"}}

\* status_mapping.get(status_str, ApplicationStatus.OTHER_UPDATE)
StatusMapping(status_str) ==
    CASE status_str = "applied" -> "APPLIED_RECEIVED"
      [] status_str = "rejected" -> "REJECTED"
      [] OTHER -> "OTHER_UPDATE"

\* A fallback whose "not job related" fact carries the confidence of an answer.
FallbackSkipConfident(answer) ==
    IF answer.during # "json" THEN {}
    ELSE IF ~answer.is_job_related
    THEN {ExtractedData(NoName, 0, NoName, 0, "UNKNOWN", "OTHER_UPDATE",
                        "llm_groq_skipped", Pct(90))}
    ELSE IF answer.status = "null" THEN {}
    ELSE {ExtractedData(answer.company_name,
                        IF answer.company_name # NoName THEN Pct(90) ELSE 0,
                        answer.job_title,
                        IF answer.job_title # NoName THEN Pct(90) ELSE 0,
                        "UNKNOWN", StatusMapping(answer.status), "llm_groq", Pct(90))}

\* _extract_llm_fallback with a client: {} is None.  A failed request, a json
\* error and data.get('status', 'other').lower() on null are caught by
\* "except Exception".
_extract_llm_fallback(answer) ==
    IF answer.during # "json" THEN {}
    ELSE IF ~answer.is_job_related
    THEN {ExtractedData(NoName, 0, NoName, 0, "UNKNOWN", "OTHER_UPDATE",
                        "llm_groq_skipped", 0)}
    ELSE IF answer.status = "null" THEN {}
    ELSE {ExtractedData(answer.company_name,
                        IF answer.company_name # NoName THEN Pct(90) ELSE 0,
                        answer.job_title,
                        IF answer.job_title # NoName THEN Pct(90) ELSE 0,
                        "UNKNOWN", StatusMapping(answer.status), "llm_groq", Pct(90))}

FallbackBelow == Pct(85)

\* "if result.overall_confidence < 0.85 and self.llm_client": the requests sent
\* to the client by one call of extract.
LlmRequests(rule_based, llm_client) ==
    IF rule_based.overall_confidence < FallbackBelow /\ llm_client THEN 1 ELSE 0

ExtractFallbackNotLower(rule_based, llm_client, answer) ==
    IF rule_based.overall_confidence < FallbackBelow /\ llm_client
    THEN LET llm_result == _extract_llm_fallback(answer)
         IN  IF \E r \in llm_result : r.overall_confidence >= rule_based.overall_confidence
             THEN CHOOSE r \in llm_result : TRUE
             ELSE rule_based
    ELSE rule_based

extract(rule_based, llm_client, answer) ==
    IF rule_based.overall_confidence < FallbackBelow /\ llm_client
    THEN LET llm_result == _extract_llm_fallback(answer)
         IN  IF \E r \in llm_result : r.overall_confidence > rule_based.overall_confidence
             THEN CHOOSE r \in llm_result : TRUE
             ELSE rule_based
    ELSE rule_based

NoAnswer == LlmAnswer("no_json", NoName, FALSE, NoName, "null")

InitExtract ==
    /\ call \in {[answer |-> a, function |-> "extract", llm_client |-> TRUE,
                  llm_requests |-> 0, pc |-> "called", result |-> r, rule_based |-> r] :
                    a \in LlmAnswers, r \in RuleBasedResults}
               \cup {[answer |-> NoAnswer, function |-> "extract", llm_client |-> FALSE,
                      llm_requests |-> 0, pc |-> "called", result |-> r, rule_based |-> r] :
                        r \in RuleBasedResults}
    /\ applications = {} /\ now = 100 /\ mcall = NoCall
    /\ rawEmails = {} /\ events = <<>> /\ links = {} /\ reviews = {}
    /\ nextId = [app |-> 1, raw |-> 1]
    /\ sess = <<>> /\ batch = <<>> /\ results = <<>> /\ ncalls = 0
    /\ syncLocks = <<>> /\ syncStates = <<>> /\ tasks = <<>> /\ requests = <<>>

\* extractor.extract(subject, body, from_address, date)
Extract ==
    /\ call.function = "extract" /\ call.pc = "called"
    /\ call' = [call EXCEPT !.pc = "returned",
                            !.llm_requests = LlmRequests(call.rule_based, call.llm_client),
                            !.result = extract(call.rule_based, call.llm_client, call.answer)]
    /\ UNCHANGED <<applications, now, mcall, pipelineVars, syncVars>>

NextExtract == Extract

SpecExtract == InitExtract /\ [][NextExtract]_vars

ExtractReturned == call.function = "extract" /\ call.pc = "returned"

\* The fallback was asked and produced a result of strictly higher overall
\* confidence than the deterministic one.
FallbackHigher ==
    /\ call.llm_requests = 1
    /\ \E r \in _extract_llm_fallback(call.answer) :
           r.overall_confidence > call.rule_based.overall_confidence

\* C14: extract asks the fallback only when the deterministic overall
\* confidence is below 0.85 and a fallback is configured; it returns the
\* fallback's result exactly when the fallback produced a result of strictly
\* higher overall confidence; in every other case (no fallback, failed request
\* or parse, confidence not higher) it returns the deterministic result
\* unchanged.
C14_FallbackOnlyIfHigher ==
    ExtractReturned =>
        /\ call.llm_requests = 1
               => call.rule_based.overall_confidence < Pct(85) /\ call.llm_client
        /\ FallbackHigher => call.result \in _extract_llm_fallback(call.answer)
        /\ ~FallbackHigher => call.result = call.rule_based
        /\ call.result.extraction_method # "rule_based" <=> FallbackHigher

\* The fallback answers "not job related" (confidence 0.0) to an email in which
\* the rules found nothing (confidence 0.0): the deterministic result is kept.
C14_Witness ==
    /\ ExtractReturned
    /\ call.llm_requests = 1
    /\ call.rule_based.overall_confidence = 0
    /\ \E r \in _extract_llm_fallback(call.answer) : r.overall_confidence = 0
    /\ call.result = call.rule_based

\* The fallback was asked and its answer says the email is not job related.
FlaggedNotJobRelated ==
    /\ call.llm_requests = 1
    /\ call.answer.during = "json" /\ ~call.answer.is_job_related

-----------------------------------------------------------------------------
(* generate_email_fingerprint on its own: calls at different times *)

MaxFingerprintCalls == 2
LastDay == 101
TransportIds == {"m1", "m2"}

InitFingerprint ==
    /\ call = [calls |-> <<>>, function |-> "generate_email_fingerprint"]
    /\ now = 100
    /\ applications = {} /\ mcall = NoCall
    /\ rawEmails = {} /\ events = <<>> /\ links = {} /\ reviews = {}
    /\ nextId = [app |-> 1, raw |-> 1]
    /\ sess = <<>> /\ batch = <<>> /\ results = <<>> /\ ncalls = 0
    /\ syncLocks = <<>> /\ syncStates = <<>> /\ tasks = <<>> /\ requests = <<>>

\* Time passes between two calls.
Tick ==
    /\ call.function = "generate_email_fingerprint"
    /\ now < LastDay
    /\ now' = now + 1
    /\ UNCHANGED <<applications, mcall, call, pipelineVars, syncVars>>

\* One call, made at time now while the email outlook_message_id is processed.
FingerprintCall(k, outlook_message_id) ==
    /\ call.function = "generate_email_fingerprint"
    /\ Len(call.calls) < MaxFingerprintCalls
    /\ call' = [call EXCEPT !.calls = Append(@,
                   [body_prefix |-> FingerprintArgs[k][4], created_at |-> now,
                    email_fingerprint |->
                        generate_email_fingerprint(FingerprintArgs[k][1], FingerprintArgs[k][2],
                                                   FingerprintArgs[k][3], FingerprintArgs[k][4]),
                    original_date |-> FingerprintArgs[k][3],
                    original_from |-> FingerprintArgs[k][1],
                    original_subject |-> FingerprintArgs[k][2],
                    outlook_message_id |-> outlook_message_id])]
    /\ UNCHANGED <<applications, now, mcall, pipelineVars, syncVars>>

NextFingerprint ==
    \/ Tick
    \/ \E k \in 1..Len(FingerprintArgs), m \in TransportIds : FingerprintCall(k, m)

SpecFingerprint == InitFingerprint /\ [][NextFingerprint]_vars

FingerprintCalls ==
    IF call.function = "generate_email_fingerprint" THEN call.calls ELSE <<>>

\* Absent and empty count the same, and of the body only its first 500 characters.
SameFingerprintInputs(c, d) ==
    /\ c.original_from = d.original_from
    /\ c.original_subject = d.original_subject
    /\ c.original_date = d.original_date
    /\ \/ c.body_prefix = d.body_prefix
       \/ /\ Len(c.body_prefix) >= 500 /\ Len(d.body_prefix) >= 500
          /\ \A i \in 1..500 : c.body_prefix[i] = d.body_prefix[i]

HexChars == {"0", "1", "2", "3", "4", "5", "6", "7", "8", "9", "a", "b", "c", "d", "e", "f"}

-----------------------------------------------------------------------------
(* extractor.py: JobEmailExtractor._extract_company *)

UpperLetters ==
    {"A", "B", "C", "D", "E", "F", "G", "H", "I", "J", "K", "L", "M", "N", "O", "P", "Q",
     "R", "S", "T", "U", "V", "W", "X", "Y", "Z"}
LowerLetters == {LowerChar(c) : c \in UpperLetters}
Digits == {"0", "1", "2", "3", "4", "5", "6", "7", "8", "9"}

UpperChar(c) == IF c \in LowerLetters THEN CHOOSE u \in UpperLetters : LowerChar(u) = c ELSE c

\* [A-Za-z0-9\s&.]
CompanyChar(c) == c \in UpperLetters \cup LowerLetters \cup Digits \cup {"&", "."} \/ IsSpace(c)

\* The index of the first character after the white space that starts at p; p
\* itself when there is none.
RECURSIVE SkipSpace(_, _)
SkipSpace(text, p) ==
    IF p <= Len(text) /\ IsSpace(text[p]) THEN SkipSpace(text, p + 1) ELSE p

\* Where prefix occurs in text, with or without re.IGNORECASE.
PrefixAt(text, prefix, ignorecase) ==
    IF ignorecase THEN Occurrences(text, prefix)
    ELSE {i \in 1..(Len(text) - Len(prefix) + 1) : StartsAt(text, i, prefix)}

FirstLetter(c, ignorecase) ==
    c \in UpperLetters \/ (ignorecase /\ c \in LowerLetters)

\* The end of the longest run of company characters that starts at q.
RECURSIVE RunEnd(_, _)
RunEnd(text, q) ==
    IF q + 1 <= Len(text) /\ CompanyChar(text[q + 1]) THEN RunEnd(text, q + 1) ELSE q

\* group(1) of re.search(prefix + r'\s+([A-Z][A-Za-z0-9\s&.]+)', text): the
\* longest run; NoName when the pattern does not match.
GreedyAfter(text, prefix, ignorecase) ==
    LET starts == {i \in PrefixAt(text, prefix, ignorecase) :
                      LET p == i + Len(prefix)
                          q == SkipSpace(text, p)
                      IN  /\ q > p /\ q + 1 <= Len(text)
                          /\ FirstLetter(text[q], ignorecase)
                          /\ CompanyChar(text[q + 1])}
        q == SkipSpace(text, Least(starts) + Len(prefix))
    IN  IF starts = {} THEN NoName ELSE SubSeq(text, q, RunEnd(text, q))

\* group(1) of re.search(prefix + r'\s+([A-Z][A-Za-z0-9\s&.]+?)$', text): the
\* rest of the text, if it consists of company characters.
LazyToEnd(text, prefix) ==
    LET starts == {i \in PrefixAt(text, prefix, FALSE) :
                      LET p == i + Len(prefix)
                          q == SkipSpace(text, p)
                      IN  /\ q > p /\ q + 1 <= Len(text)
                          /\ text[q] \in UpperLetters
                          /\ \A k \in (q + 1)..Len(text) : CompanyChar(text[k])}
        q == SkipSpace(text, Least(starts) + Len(prefix))
    IN  IF starts = {} THEN NoName ELSE SubSeq(text, q, Len(text))

\* White space, then the word, from place p on.
SpaceThen(text, p, word) ==
    /\ SkipSpace(text, p) > p
    /\ StartsAt(text, SkipSpace(text, p), word)

\* The shortest capture of [A-Z][A-Za-z0-9\s&.]{2,40}? from q on that is
\* followed by white space and the word; NoName when there is none.
LazyUpTo(text, q, word) ==
    LET lens == {n \in 2..40 :
                    /\ q + n <= Len(text)
                    /\ \A k \in (q + 1)..(q + n) : CompanyChar(text[k])
                    /\ SpaceThen(text, q + n + 1, word)}
    IN  IF q > Len(text) \/ text[q] \notin UpperLetters \/ lens = {} THEN NoName
        ELSE SubSeq(text, q, q + Least(lens))

\* group(1) of re.search(r'^([A-Z][A-Za-z0-9\s&.]{2,40}?)\s+-\s+', text)
BeforeDash(text) ==
    LET lens == {n \in 2..40 :
                    /\ 1 + n <= Len(text) /\ text[1] \in UpperLetters
                    /\ \A k \in 2..(1 + n) : CompanyChar(text[k])
                    /\ SpaceThen(text, n + 2, <<"-">>)
                    /\ LET dash == SkipSpace(text, n + 2)
                       IN  dash + 1 <= Len(text) /\ IsSpace(text[dash + 1])}
    IN  IF lens = {} THEN NoName ELSE SubSeq(text, 1, 1 + Least(lens))

\* group(1) of re.search(prefix + r'\s+([A-Z][A-Za-z0-9\s&.]{2,40}?)\s+and', text)
LazyBetween(text, prefix, word) ==
    LET starts == {i \in PrefixAt(text, prefix, FALSE) :
                      LET p == i + Len(prefix)
                          q == SkipSpace(text, p)
                      IN  q > p /\ LazyUpTo(text, q, word) # NoName}
    IN  IF starts = {} THEN NoName
        ELSE LazyUpTo(text, SkipSpace(text, Least(starts) + Len(prefix)), word)

SentTo == <<"a", "p", "p", "l", "i", "c", "a", "t", "i", "o", "n", " ", "w", "a", "s", " ", "s", "e", "n", "t", " ", "t", "o">>
ApplicationTo == <<"a", "p", "p", "l", "i", "c", "a", "t", "i", "o", "n", " ", "t", "o">>
InterestIn == <<"i", "n", "t", "e", "r", "e", "s", "t", " ", "i", "n">>
LinkedIn == <<"l", "i", "n", "k", "e", "d", "i", "n", ".", "c", "o", "m">>
MyWorkday == <<"m", "y", "w", "o", "r", "k", "d", "a", "y">>

\* The false positives of the subject patterns.
FalsePositives ==
    {<<"a", "p", "p", "l", "i", "c", "a", "t", "i", "o", "n", " ", "r", "e", "c", "e", "i", "v", "e", "d">>,
     <<"t", "h", "a", "n", "k", " ", "y", "o", "u">>,
     <<"y", "o", "u", "r", " ", "a", "p", "p", "l", "i", "c", "a", "t", "i", "o", "n">>,
     <<"n", "e", "x", "t", " ", "p", "h", "a", "s", "e">>,
     <<"u", "p", "d", "a", "t", "e", " ", "f", "r", "o", "m">>,
     <<"y", "o", "u", "r", " ", "u", "p", "d", "a", "t", "e", " ", "f", "r", "o", "m">>,
     <<"o", "n", "l", "i", "n", "e", " ", "a", "s", "s", "e", "s", "s", "m", "e", "n", "t">>,
     <<"d", "e", "f", "a", "u", "l", "t", " ", "d", "i", "r", "e", "c", "t", "o", "r", "y">>,
     <<"e", "m", "a", "i", "l">>,
     <<"y", "o", "u", "r">>}

\* The filter on a subject candidate.
Plausible(extracted) ==
    /\ Len(extracted) > 2
    /\ Lower(extracted) \notin FalsePositives
    /\ ~StartsAt(Lower(extracted), 1, <<"y", "o", "u", "r", " ">>)
    /\ ~StartsAt(Lower(extracted), 1, <<"a", "c", "c", "o", "u", "n", "t">>)

\* Strategy 3: the first subject pattern whose stripped group passes the
\* filter.  Of subject_patterns the three that a modelled subject can match are
\* written out; no subject below holds 'thank you for applying to'.
SubjectCompany(subject) ==
    LET groups == << LazyToEnd(subject, SentTo), LazyToEnd(subject, ApplicationTo),
                     BeforeDash(subject) >>
        hits == {p \in 1..Len(groups) : groups[p] # NoName /\ Plausible(Strip(groups[p]))}
    IN  IF hits = {} THEN NoName ELSE Strip(groups[Least(hits)])

\* Strategies 2 and 4 look in the body; of their patterns the one both share
\* that a modelled body can match, r'interest in\s+(...)\s+and'.
BodyCompany(body) ==
    LET extracted == Strip(LazyBetween(body, InterestIn, <<"a", "n", "d">>))
    IN  extracted

ATS_DOMAINS ==
    {<<"w", "o", "r", "k", "d", "a", "y", ".", "c", "o", "m">>,
     <<"m", "y", "w", "o", "r", "k", "d", "a", "y", "s", "i", "t", "e", ".", "c", "o", "m">>,
     <<"g", "r", "e", "e", "n", "h", "o", "u", "s", "e", ".", "i", "o">>,
     <<"l", "e", "v", "e", "r", ".", "c", "o">>,
     <<"i", "c", "i", "m", "s", ".", "c", "o", "m">>,
     <<"s", "m", "a", "r", "t", "r", "e", "c", "r", "u", "i", "t", "e", "r", "s", ".", "c", "o", "m">>,
     <<"a", "s", "h", "b", "y", "h", "q", ".", "c", "o", "m">>,
     <<"b", "r", "e", "e", "z", "y", ".", "h", "r">>,
     <<"j", "o", "b", "v", "i", "t", "e", ".", "c", "o", "m">>}

SkipDomains ==
    {<<"g", "m", "a", "i", "l", ".", "c", "o", "m">>,
     <<"y", "a", "h", "o", "o", ".", "c", "o", "m">>,
     <<"h", "o", "t", "m", "a", "i", "l", ".", "c", "o", "m">>,
     <<"o", "u", "t", "l", "o", "o", "k", ".", "c", "o", "m">>,
     <<"l", "i", "v", "e", ".", "c", "o", "m">>,
     <<"i", "c", "l", "o", "u", "d", ".", "c", "o", "m">>,
     <<"a", "o", "l", ".", "c", "o", "m">>,
     <<"p", "r", "o", "t", "o", "n", "m", "a", "i", "l", ".", "c", "o", "m">>,
     <<"m", "a", "i", "l", ".", "c", "o", "m">>,
     <<"z", "o", "h", "o", ".", "c", "o", "m">>}

\* str.replace(old, new) for every occurrence, from the left.
RECURSIVE ReplaceAll(_, _, _)
ReplaceAll(s, old, new) ==
    LET i == FindCased(s, old)
    IN  IF i = 0 THEN s
        ELSE SubSeq(s, 1, i - 1) \o new
             \o ReplaceAll(SubSeq(s, i + Len(old), Len(s)), old, new)

\* str.title()
Title(s) ==
    [i \in 1..Len(s) |->
        IF i = 1 \/ s[i - 1] \notin UpperLetters \cup LowerLetters
        THEN UpperChar(s[i]) ELSE LowerChar(s[i])]

\* from_address.split('@')[-1] if '@' in from_address else ''
Domain(from_address) ==
    LET ats == {i \in 1..Len(from_address) : from_address[i] = "@"}
    IN  IF ats = {} THEN <<>> ELSE SubSeq(from_address, Greatest(ats) + 1, Len(from_address))

\* Strategy 5: the company named by the sender's domain, NoName for a personal
\* or ATS domain.
DomainCompany(from_address) ==
    LET domain == Domain(from_address)
        bare == ReplaceAll(ReplaceAll(ReplaceAll(domain, <<".", "c", "o", "m">>, <<>>),
                                      <<".", "i", "o">>, <<>>), <<".", "c", "o">>, <<>>)
        company_from_domain == Title(ReplaceAll(ReplaceAll(bare, <<"-">>, <<" ">>),
                                                <<"_">>, <<" ">>))
    IN  IF /\ domain # <<>>
           /\ \A ats \in ATS_DOMAINS : FindCased(domain, ats) = 0
           /\ Lower(domain) \notin SkipDomains
           /\ Len(company_from_domain) > 2
        THEN company_from_domain ELSE NoName

\* The words of the clean-up pattern.
TrailingWords ==
    {<<"T", "e", "a", "m">>,
     <<"R", "e", "c", "r", "u", "i", "t", "m", "e", "n", "t">>,
     <<"R", "e", "c", "r", "u", "i", "t", "i", "n", "g">>,
     <<"S", "e", "r", "v", "i", "c", "e", "s">>,
     <<"C", "a", "r", "e", "e", "r", "s">>,
     <<"O", "n", "l", "i", "n", "e", " ", "A", "s", "s", "e", "s", "s", "m", "e", "n", "t">>}

\* re.sub(r'\s+(Team|...|Online Assessment)$', '', company, flags=re.IGNORECASE)
\* and strip: one trailing word and the white space before it are removed.
CleanCompany(company) ==
    LET cuts == {Len(company) - Len(w) + 1 : w \in
                    {w \in TrailingWords :
                        /\ Len(company) > Len(w)
                        /\ Lower(SubSeq(company, Len(company) - Len(w) + 1, Len(company)))
                               = Lower(w)
                        /\ IsSpace(company[Len(company) - Len(w)])}}
    IN  IF cuts = {} THEN Strip(company)
        ELSE Strip(RStrip(SubSeq(company, 1, Least(cuts) - 1)))

\* The strategies in their order; the result is <<company, confidence>>.
_extract_company(subject, body, from_address) ==
    LET linkedin == Strip(GreedyAfter(subject, SentTo, TRUE))
        workday == BodyCompany(body)
        by_subject == SubjectCompany(subject)
        by_body == BodyCompany(body)
        by_domain == DomainCompany(from_address)
    IN  IF Find(from_address, LinkedIn) # 0 /\ GreedyAfter(subject, SentTo, TRUE) # NoName
        THEN <<linkedin, Pct(90)>>
        ELSE IF /\ Find(from_address, MyWorkday) # 0
                /\ \E i \in 2..Len(from_address) :
                       /\ StartsAt(Lower(from_address), i, <<"@">> \o MyWorkday)
                       /\ \A k \in 1..(i - 1) : LowerChar(from_address[k]) \in LowerLetters
                /\ LazyBetween(body, InterestIn, <<"a", "n", "d">>) # NoName
        THEN <<workday, Pct(90)>>
        ELSE IF by_subject # NoName
        THEN <<CleanCompany(by_subject), Pct(85)>>
        ELSE IF LazyBetween(body, InterestIn, <<"a", "n", "d">>) # NoName /\ Len(by_body) > 2
        THEN <<CleanCompany(by_body), Pct(85)>>
        ELSE IF by_domain # NoName
        THEN <<CleanCompany(by_domain), Pct(50)>>
        ELSE <<NoName, 0>>

\* The emails _extract_company is applied to.
CompanySubjects ==
    {<<"H", "e", "l", "l", "o">>,
     <<"Y", "o", "u", "r", " ", "a", "p", "p", "l", "i", "c", "a", "t", "i", "o", "n", " ", "t", "o", " ", "A", "c", "m", "e", " ", "T", "e", "a", "m">>,
     <<"Y", "o", "u", "r", " ", "a", "p", "p", "l", "i", "c", "a", "t", "i", "o", "n", " ", "t", "o", " ", "A", "c", "m", "e", " ", "R", "e", "c", "r", "u", "i", "t", "i", "n", "g", " ", "T", "e", "a", "m">>,
     <<"Y", "o", "u", "r", " ", "a", "p", "p", "l", "i", "c", "a", "t", "i", "o", "n", " ", "w", "a", "s", " ", "s", "e", "n", "t", " ", "t", "o", " ", "A", "c", "m", "e", " ", "T", "e", "a", "m">>,
     <<"A", "c", "m", "e", " ", "C", "a", "r", "e", "e", "r", "s", " ", "-", " ", "E", "n", "g", "i", "n", "e", "e", "r">>}

CompanyBodies ==
    {<<>>,
     <<"T", "h", "a", "n", "k", " ", "y", "o", "u", " ", "f", "o", "r", " ", "y", "o", "u", "r", " ", "i", "n", "t", "e", "r", "e", "s", "t", " ", "i", "n", " ", "A", "c", "m", "e", " ", "S", "e", "r", "v", "i", "c", "e", "s", " ", "a", "n", "d", " ", "m", "o", "r", "e">>,
     <<"Y", "o", "u", "r", " ", "i", "n", "t", "e", "r", "e", "s", "t", " ", "i", "n", " ", "A", "c", "m", "e", " ", "a", "n", "d", " ", "u", "s">>}

CompanySenders ==
    {<<"h", "r", "@", "g", "m", "a", "i", "l", ".", "c", "o", "m">>,
     <<"j", "o", "b", "s", "@", "l", "i", "n", "k", "e", "d", "i", "n", ".", "c", "o", "m">>,
     <<"a", "c", "m", "e", "@", "m", "y", "w", "o", "r", "k", "d", "a", "y", ".", "c", "o", "m">>,
     <<"h", "r", "@", "a", "c", "m", "e", "-", "c", "a", "r", "e", "e", "r", "s", ".", "c", "o", "m">>,
     <<"h", "r", "@", "a", "c", "m", "e", "_", "t", "e", "a", "m", ".", "i", "o">>}

InitCompany ==
    /\ call \in {[body_text |-> b, function |-> "_extract_company",
                  outlook_from |-> f, outlook_subject |-> s, pc |-> "called",
                  result |-> <<NoName, 0>>] :
                    b \in CompanyBodies, f \in CompanySenders, s \in CompanySubjects}
    /\ applications = {} /\ now = 100 /\ mcall = NoCall
    /\ rawEmails = {} /\ events = <<>> /\ links = {} /\ reviews = {}
    /\ nextId = [app |-> 1, raw |-> 1]
    /\ sess = <<>> /\ batch = <<>> /\ results = <<>> /\ ncalls = 0
    /\ syncLocks = <<>> /\ syncStates = <<>> /\ tasks = <<>> /\ requests = <<>>

\* result.company_name, result.company_confidence = self._extract_company(...)
ExtractCompany ==
    /\ call.function = "_extract_company" /\ call.pc = "called"
    /\ call' = [call EXCEPT !.pc = "returned",
                            !.result = _extract_company(call.outlook_subject, call.body_text,
                                                        call.outlook_from)]
    /\ UNCHANGED <<applications, now, mcall, pipelineVars, syncVars>>

NextCompany == ExtractCompany

SpecCompany == InitCompany /\ [][NextCompany]_vars

CompanyReturned == call.function = "_extract_company" /\ call.pc = "returned"

NoiseWords ==
    {<<"t", "e", "a", "m">>, <<"r", "e", "c", "r", "u", "i", "t", "m", "e", "n", "t">>,
     <<"r", "e", "c", "r", "u", "i", "t", "i", "n", "g">>,
     <<"s", "e", "r", "v", "i", "c", "e", "s">>, <<"c", "a", "r", "e", "e", "r", "s">>}

\* The name consists of at least two words, the last of which is a noise word.
EndsInNoiseWord(company) ==
    \E w \in NoiseWords :
        /\ Len(company) > Len(w)
        /\ Lower(SubSeq(company, Len(company) - Len(w) + 1, Len(company))) = w
        /\ company[Len(company) - Len(w)] = " "

\* C16: company extraction strips the trailing noise words (Team,
\* Recruitment, Recruiting, Services, Careers) from the final candidate of
\* whichever strategy produced it: no returned company name ends in a noise
\* word, and the candidate "Acme Recruiting Team" is returned as "Acme".
C16_NoTrailingNoiseWord ==
    CompanyReturned =>
        /\ ~EndsInNoiseWord(call.result[1])
        /\ Contains(call.outlook_subject, <<"R", "e", "c", "r", "u", "i", "t", "i", "n", "g">>)
               => call.result[1] = <<"A", "c", "m", "e">>

-----------------------------------------------------------------------------
(* processor.py: the update path of process_email on its own *)

\* The Applications an email can be matched to: written by the pipeline, with
\* or without an action of their own, or entered through POST /applications,
\* which gives the row no latest_email_date.
UpdateRows ==
    {[MkApplication(1, 1, <<"a", "b">>, <<"t">>, status, 100, 100) EXCEPT
         !.action_required = action,
         !.action_type = IF action THEN "SCHEDULE_INTERVIEW" ELSE "None",
         !.action_deadline = IF action THEN 130 ELSE NoDate,
         !.action_description = IF action THEN "interview" ELSE "None"] :
        status \in {"APPLIED_RECEIVED", "REJECTED"}, action \in BOOLEAN}
    \cup {MkApplication(2, 1, <<"a", "b">>, <<"t">>, status, NoDate, 100) :
            status \in {"APPLIED_RECEIVED", "REJECTED"}}

UpdateFacts ==
    {MkFact(<<"A", "B">>, <<"t">>, status, action, nlinks, Pct(78)) :
        status \in {"APPLIED_RECEIVED", "NEXT_STEP_ASSESSMENT"}, action \in BOOLEAN,
        nlinks \in 0..1}

UpdateDates == {90, 100, 110}

InitUpdate ==
    /\ call \in {[application |-> a, email_date |-> d, error |-> "None", fact |-> f,
                  function |-> "_update_application", pc |-> "called", result |-> a] :
                    a \in UpdateRows, f \in UpdateFacts, d \in UpdateDates}
    /\ applications = {} /\ now = 100 /\ mcall = NoCall
    /\ rawEmails = {} /\ events = <<>> /\ links = {} /\ reviews = {}
    /\ nextId = [app |-> 1, raw |-> 1]
    /\ sess = <<>> /\ batch = <<>> /\ results = <<>> /\ ncalls = 0
    /\ syncLocks = <<>> /\ syncStates = <<>> /\ tasks = <<>> /\ requests = <<>>

\* "application = self.db.query(Application).get(...)", then
\* self._update_application(application, extracted_data, extraction_date): the
\* Application as changed, or the exception the comparison raises.
UpdateApplication ==
    /\ call.function = "_update_application" /\ call.pc = "called"
    /\ call' = IF UpdateRaises(call.application)
               THEN [call EXCEPT !.pc = "raised", !.error = ErrCompare]
               ELSE [call EXCEPT !.pc = "returned",
                                 !.result = _update_application(call.application, call.fact,
                                                                call.email_date)]
    /\ UNCHANGED <<applications, now, mcall, pipelineVars, syncVars>>

NextUpdate == UpdateApplication

SpecUpdate == InitUpdate /\ [][NextUpdate]_vars

UpdateCalled == call.function = "_update_application" /\ call.pc # "called"

Later(d1, d2) == IF d1 > d2 THEN d1 ELSE d2

\* What the update path leaves of the Application old and writes from the fact.
UpdateFrame(old, new, fact, email_date) ==
    /\ IF fact.status = old.current_status
       THEN /\ new.current_status = old.current_status
            /\ new.status_updated_at = old.status_updated_at
       ELSE /\ new.current_status = fact.status
            /\ new.status_updated_at = email_date
    /\ IF fact.action_required
       THEN /\ new.action_required
            /\ new.action_type = fact.action_type
            /\ new.action_deadline = fact.action_deadline
            /\ new.action_description = fact.action_description
       ELSE /\ new.action_required = old.action_required
            /\ new.action_type = old.action_type
            /\ new.action_deadline = old.action_deadline
            /\ new.action_description = old.action_description
    /\ new.latest_email_date = Later(old.latest_email_date, email_date)
    /\ new.company_name = old.company_name /\ new.job_title = old.job_title
    /\ new.first_seen_date = old.first_seen_date
    /\ new.application_date = old.application_date

\* The update path of an Application that has a latest_email_date.
UpdateFrameWhenDated ==
    (UpdateCalled /\ call.application.latest_email_date # NoDate)
    => /\ call.pc = "returned"
       /\ UpdateFrame(call.application, call.result, call.fact, call.email_date)

\* C22: on the update path, current_status and status_updated_at are left
\* unchanged when the fact's status equals the current status and are
\* otherwise set to the fact's status and the email date; the four action
\* fields are left unchanged when the fact has action_required = false and are
\* otherwise all overwritten by the fact's; latest_email_date becomes the later
\* of its old value and the email date; company name, job title, first-seen
\* date and application date are never changed.
C22_UpdateFrame ==
    UpdateCalled
    => /\ call.pc = "returned"
       /\ UpdateFrame(call.application, call.result, call.fact, call.email_date)

====
